---------------------------- MODULE Spec2Model ----------------------------
(***************************************************************************)
(* On-call swap negotiation: the SwapOffer aggregate (domain/models.py)    *)
(* and SwapNegotiationService (application/services.py), with the          *)
(* in-memory offer repository, the override port and the Slack             *)
(* notification port as recorded state.                                    *)
(*                                                                         *)
(* Time is a line of slots; SlotsPerDay consecutive slots share one        *)
(* calendar date, so that datetime.date() (used by the service's           *)
(* date-level matching) and exact (start, end) equality (used by           *)
(* find_need / resolve_need) are different relations.                      *)
(***************************************************************************)
EXTENDS Integers, Sequences, FiniteSets, TLC

\* ------------------------------------------------------------------ bounds
\* Slots of the time line are 0 .. MaxTime.
MaxTime == 6
\* Slots per calendar date.
SlotsPerDay == 2
\* Participants are 1 .. NumParticipants.
NumParticipants == 4
\* Ring contributions are accepted while fewer commitments are pending.
MaxCommitments == 2
\* Longest search_windows list of a CreateOfferCommand.
MaxSearch == 1
\* The override port raises only while fewer overrides have been applied.
MaxAppliedBeforeFailure == 1
\* Handler threads running accept_cover at the same time.
MaxThreads == 2
\* Longest list of windows given to SwapOffer.create, add_available_windows
\* and record_ring_candidate when the aggregate is driven directly.
MaxWindowList == 2
\* Longest commitments list a RingSwap is built from.
MaxRingLength == 4
\* record_ring_candidate and record_ring_swap are called while the offer
\* holds fewer candidates, and fewer ring swaps.
MaxCandidates == 1
MaxRingSwaps == 1
\* Most periods in the timeline the schedule provider returns, the longest
\* period in slots, and the largest horizon_days of get_upcoming_windows.
MaxPeriods == 2
MaxPeriodLength == 2
MaxHorizonDays == 1

Participants == 1 .. NumParticipants

\* The uuid4 values an offer id is drawn from.
OfferIds == {1}

\* The ids an AcceptCoverCommand names: those of offers, and one no offer has.
CommandOfferIds == OfferIds \cup {0}

\* CreateOfferCommand.schedule_id
ScheduleId == "primary"

\* Instants "now" injected into create_offer.
Nows == {0, 1}

\* ------------------------------------------------------------ domain/models
\* validate_non_empty raising when end < start only.
validate_not_reversed(start, end) == end >= start

\* TimeWindow.validate_non_empty: construction succeeds iff end > start.
validate_non_empty(start, end) == end > start

\* Every TimeWindow of the model: one slot long, some within one calendar
\* date, some ending on the next date.
Windows ==
    { [start |-> s, end |-> s + 1] : s \in { t \in 0 .. (MaxTime - 1) : validate_non_empty(t, t + 1) } }

\* datetime.date()
date(t) == t \div SlotsPerDay

\* TimeWindow.to_tuple
to_tuple(w) == <<w.start, w.end>>

\* TimeWindow.overlaps on closed intervals.
overlaps_closed(a, b) == a.start <= b.end /\ b.start <= a.end

\* TimeWindow.overlaps
overlaps(a, b) == a.start < b.end /\ b.start < a.end

\* The service's date-level overlap test,
\*   a.start.date() <= b.end.date() and b.start.date() <= a.end.date()
date_overlap(a, b) ==
    date(a.start) <= date(b.end) /\ date(b.start) <= date(a.end)

ACTIVE == "active"
FULFILLED == "fulfilled"
CANCELLED == "cancelled"

\* WindowNeed
WindowNeed(owner, window, created_by_offer) ==
    [owner |-> owner, window |-> window, created_by_offer |-> created_by_offer]

\* RingSwapCommitment
RingSwapCommitment(from_participant, to_participant, window) ==
    [from_participant |-> from_participant, to_participant |-> to_participant,
     window |-> window]

\* DirectSwap
DirectSwap(participant, covers_window, in_exchange_for) ==
    [participant |-> participant, covers_window |-> covers_window,
     in_exchange_for |-> in_exchange_for]

\* OnCallAssignment
OnCallAssignment(participant, window) ==
    [participant |-> participant, window |-> window]

\* SwapOffer.__init__ without lines 130-133: the field defaults only.
SwapOffer_with_defaults_only(id, requester, schedule_id, let_window, search_windows) ==
    [id |-> id,
     requester |-> requester,
     schedule_id |-> schedule_id,
     let_window |-> let_window,
     search_windows |-> search_windows,
     status |-> ACTIVE,
     available_windows |-> <<>>,
     direct_agreements |-> <<>>,
     ring_candidates |-> <<>>,
     ring_swaps |-> <<>>,
     outstanding_needs |-> <<>>,
     partial_commitments |-> <<>>]

\* SwapOffer.__init__: the defaults, then available_windows and
\* outstanding_needs filled in when empty.
SwapOffer(id, requester, schedule_id, let_window, search_windows) ==
    [id |-> id,
     requester |-> requester,
     schedule_id |-> schedule_id,
     let_window |-> let_window,
     search_windows |-> search_windows,
     status |-> ACTIVE,
     available_windows |-> search_windows,
     direct_agreements |-> <<>>,
     ring_candidates |-> <<>>,
     ring_swaps |-> <<>>,
     outstanding_needs |-> <<WindowNeed(requester, let_window, TRUE)>>,
     partial_commitments |-> <<>>]

\* SwapOffer._ensure_future: TRUE when the window passes (does not raise).
ensure_future(window, instant) == ~(window.start < instant)

\* SwapOffer.create: TRUE when no TimeWindowInPastError is raised.
create_ok(let_window, search_windows, now) ==
    /\ ensure_future(let_window, now)
    /\ \A i \in 1 .. Len(search_windows) : ensure_future(search_windows[i], now)

\* SwapOffer.is_active
is_active(offer) == offer.status = ACTIVE

\* find_need matching by date overlap, as the service's other window tests
\* do, instead of by equal (start, end).
find_need_by_date(offer, window) ==
    SelectSeq(offer.outstanding_needs, LAMBDA n : date_overlap(n.window, window))

\* SwapOffer.find_need: the matching needs in list order (the first is the
\* one returned, none when empty).
find_need(offer, window) ==
    SelectSeq(offer.outstanding_needs, LAMBDA n : to_tuple(n.window) = to_tuple(window))

\* resolve_need sparing the need the offer was created with.
resolve_need_sparing_offer_need(offer, window) ==
    [offer EXCEPT !.outstanding_needs =
        SelectSeq(@, LAMBDA n : to_tuple(n.window) # to_tuple(window) \/ n.created_by_offer)]

\* resolve_need removing every need whose window overlaps the window.
resolve_need_by_overlap(offer, window) ==
    IF find_need(offer, window) # <<>>
    THEN [offer EXCEPT !.outstanding_needs =
            SelectSeq(@, LAMBDA n : ~overlaps(n.window, window))]
    ELSE offer

\* SwapOffer.resolve_need
resolve_need(offer, window) ==
    IF find_need(offer, window) # <<>>
    THEN [offer EXCEPT !.outstanding_needs =
            SelectSeq(@, LAMBDA n : to_tuple(n.window) # to_tuple(window))]
    ELSE offer

\* SwapOffer.add_commitment
add_commitment(offer, coverer, need) ==
    [offer EXCEPT !.partial_commitments =
        Append(@, RingSwapCommitment(coverer, need.owner, need.window))]

\* record_direct_swap without line 168: the partial commitments are kept.
record_direct_swap_keeping_commitments(offer, participant, swap_window) ==
    [offer EXCEPT
        !.direct_agreements = Append(@, DirectSwap(participant, offer.let_window, swap_window)),
        !.status = FULFILLED,
        !.outstanding_needs = <<>>]

\* record_direct_swap that also takes the swapped window off search_windows.
record_direct_swap_using_up_search_window(offer, participant, swap_window) ==
    [offer EXCEPT
        !.direct_agreements = Append(@, DirectSwap(participant, offer.let_window, swap_window)),
        !.status = FULFILLED,
        !.outstanding_needs = <<>>,
        !.partial_commitments = <<>>,
        !.search_windows = SelectSeq(@, LAMBDA w : to_tuple(w) # to_tuple(swap_window))]

\* SwapOffer.record_direct_swap
record_direct_swap(offer, participant, swap_window) ==
    [offer EXCEPT
        !.direct_agreements = Append(@, DirectSwap(participant, offer.let_window, swap_window)),
        !.status = FULFILLED,
        !.outstanding_needs = <<>>,
        !.partial_commitments = <<>>]

\* SwapOffer.cancel
cancel(offer) == [offer EXCEPT !.status = CANCELLED]


\* ------------------------------------------------------ application/services
\* The exceptions accept_cover and create_offer raise, and a normal return.
Returned == "returned"
OfferNotActiveError == "OfferNotActiveError"
MissingNeedWindow == "ValueError: Must specify a window to receive in return"
NoMatchingNeed == "ValueError: No outstanding need matches window"
TimeWindowInPastError == "TimeWindowInPastError"
OfferNotFoundError == "OfferNotFoundError"
\* What OpsgenieClient.apply_override raises when the provider call fails.
ConnectionError == "ConnectionError"

\* What _require_slack_ports raises when no notification port is configured.
RuntimeError == "RuntimeError"

\* Notifications of SlackNotificationPort, as the service emits them.
announce_offer(offer) == [kind |-> "announce_offer", offer_id |-> offer.id]
notify_ring_update(offer) == [kind |-> "notify_ring_update", offer_id |-> offer.id]
notify_direct_swap(offer, participant, window, all_assignments) ==
    [kind |-> "notify_direct_swap", offer_id |-> offer.id,
     participant |-> participant, window |-> window,
     all_assignments |-> all_assignments]

\* OpsgenieOverridePort.apply_overrides: one apply_override per assignment,
\* in order; the overrides the port receives.
apply_overrides(schedule_id, assignments) ==
    [i \in 1 .. Len(assignments) |->
        [schedule_id |-> schedule_id,
         participant |-> assignments[i].participant,
         window |-> assignments[i].window]]

\* _apply_direct_override without the requester's assignment (line 338).
apply_direct_override_for_responder_only(offer, participant, swap_window) ==
    apply_overrides(offer.schedule_id, <<OnCallAssignment(participant, offer.let_window)>>)

\* _apply_direct_override with the two windows exchanged: the responder is
\* given the swap window, the requester the let window.
apply_direct_override_crossed(offer, participant, swap_window) ==
    apply_overrides(offer.schedule_id,
        <<OnCallAssignment(participant, swap_window),
          OnCallAssignment(offer.requester, offer.let_window)>>)

\* SwapNegotiationService._apply_direct_override
apply_direct_override(offer, participant, swap_window) ==
    apply_overrides(offer.schedule_id,
        <<OnCallAssignment(participant, offer.let_window),
          OnCallAssignment(offer.requester, swap_window)>>)

\* The test of lines 85-86 by exact interval instead of by start date.
is_direct_by_interval(offer, needs_window) ==
    to_tuple(needs_window) \in
        { to_tuple(offer.search_windows[i]) : i \in 1 .. Len(offer.search_windows) }

\* accept_cover, lines 85-86: the date-level test for a direct swap.
is_direct(offer, needs_window) ==
    date(needs_window.start) \in
        { date(offer.search_windows[i].start) : i \in 1 .. Len(offer.search_windows) }

\* accept_cover, lines 91-99.
covers_let_window(offer, covers_window) ==
    /\ date(covers_window.start) <= date(offer.let_window.end)
    /\ date(offer.let_window.start) <= date(covers_window.end)

\* Indices, in list order, of the partial commitments whose window overlaps
\* the let window by date (the generator of lines 107-112, 225-230, 283-288).
let_commitments(offer) ==
    SelectSeq([i \in 1 .. Len(offer.partial_commitments) |-> i],
        LAMBDA i : /\ date(offer.partial_commitments[i].window.start) <= date(offer.let_window.end)
                   /\ date(offer.let_window.start) <= date(offer.partial_commitments[i].window.end))

\* Lines 133-143 without the test of line 141: a commitment that covers the
\* need is appended whether or not its participant is already to be cleaned.
RECURSIVE scan_chain_without_clean_test(_, _, _, _, _)
scan_chain_without_clean_test(offer, current_commit, k, commitments_to_check, participants_to_clean) ==
    LET nc == Len(offer.partial_commitments)
        need == offer.outstanding_needs[(k \div nc) + 1]
        j == (k % nc) + 1
        commit == offer.partial_commitments[j]
        hit == /\ need.owner = offer.partial_commitments[current_commit].from_participant
               /\ ~need.created_by_offer
               /\ date(commit.window.start) <= date(need.window.end)
               /\ date(need.window.start) <= date(commit.window.end)
    IN  IF k >= Len(offer.outstanding_needs) * nc
        THEN [commitments_to_check |-> commitments_to_check,
              participants_to_clean |-> participants_to_clean]
        ELSE IF hit
        THEN scan_chain_without_clean_test(offer, current_commit, k + 1,
                        Append(commitments_to_check, j),
                        participants_to_clean \cup {commit.from_participant})
        ELSE scan_chain_without_clean_test(offer, current_commit, k + 1,
                        commitments_to_check, participants_to_clean)

\* accept_cover, lines 133-143: the two nested loops run for one popped
\* commitment; k counts the (need, commit) pairs in iteration order.
RECURSIVE scan_chain(_, _, _, _, _)
scan_chain(offer, current_commit, k, commitments_to_check, participants_to_clean) ==
    LET nc == Len(offer.partial_commitments)
        need == offer.outstanding_needs[(k \div nc) + 1]
        j == (k % nc) + 1
        commit == offer.partial_commitments[j]
        hit == /\ need.owner = offer.partial_commitments[current_commit].from_participant
               /\ ~need.created_by_offer
               /\ date(commit.window.start) <= date(need.window.end)
               /\ date(need.window.start) <= date(commit.window.end)
               /\ commit.from_participant \notin participants_to_clean
    IN  IF k >= Len(offer.outstanding_needs) * nc
        THEN [commitments_to_check |-> commitments_to_check,
              participants_to_clean |-> participants_to_clean]
        ELSE IF hit
        THEN scan_chain(offer, current_commit, k + 1,
                        Append(commitments_to_check, j),
                        participants_to_clean \cup {commit.from_participant})
        ELSE scan_chain(offer, current_commit, k + 1,
                        commitments_to_check, participants_to_clean)

\* accept_cover, lines 121-143: the chain walk. Commitments are named by
\* their index in partial_commitments (the code's id(commit)).
RECURSIVE chain_walk(_, _, _, _)
chain_walk(offer, commitments_to_check, checked_commitments, participants_to_clean) ==
    IF commitments_to_check = <<>>
    THEN participants_to_clean
    ELSE LET current_commit == Head(commitments_to_check)
             rest == Tail(commitments_to_check)
         IN  IF current_commit \in checked_commitments
             THEN chain_walk(offer, rest, checked_commitments, participants_to_clean)
             ELSE LET s == scan_chain(offer, current_commit, 0, rest, participants_to_clean)
                  IN  chain_walk(offer, s.commitments_to_check,
                                 checked_commitments \cup {current_commit},
                                 s.participants_to_clean)

\* accept_cover, lines 114-155: the offer with the pre-empted ring branch
\* removed (unchanged when no commitment overlaps the let window).
preempt_ring(offer) ==
    IF let_commitments(offer) = <<>>
    THEN offer
    ELSE LET let_commitment == Head(let_commitments(offer))
             participants_to_clean ==
                 chain_walk(offer, <<let_commitment>>, {},
                            {offer.partial_commitments[let_commitment].from_participant})
         IN  [offer EXCEPT
                !.outstanding_needs =
                    SelectSeq(@, LAMBDA n : ~(n.owner \in participants_to_clean
                                              /\ ~n.created_by_offer)),
                !.partial_commitments =
                    SelectSeq(@, LAMBDA c : c.from_participant \notin participants_to_clean)]

\* The assignments of lines 206-262 without the let window's committer
\* (lines 234-237).
closure_assignments_without_committer(offer, participant, covers_window, needs_window) ==
    <<OnCallAssignment(participant, covers_window)>>
        \o (IF offer.requester # participant
            THEN <<OnCallAssignment(offer.requester, needs_window)>>
            ELSE <<>>)

\* The assignments of lines 206-262 without the participants_in_chain tests
\* (lines 220, 232, 245, 251, 258): the first let-window committer and the
\* requester are appended whoever they are.
closure_assignments_without_chain_test(offer, participant, covers_window, needs_window) ==
    LET lets == let_commitments(offer)
    IN  <<OnCallAssignment(participant, covers_window)>>
        \o (IF lets # <<>>
            THEN <<OnCallAssignment(offer.partial_commitments[Head(lets)].from_participant,
                                    offer.let_window)>>
            ELSE <<>>)
        \o <<OnCallAssignment(offer.requester, needs_window)>>

\* accept_cover, lines 206-262: the assignments of a direct swap that covers
\* a ring need.
closure_assignments(offer, participant, covers_window, needs_window) ==
    LET lets == let_commitments(offer)
        fresh == SelectSeq(lets,
                    LAMBDA i : offer.partial_commitments[i].from_participant # participant)
        \* lines 215-230: the commitment chosen for the let window, if any
        chosen == IF fresh # <<>> THEN <<Head(fresh)>>
                  ELSE IF lets # <<>> THEN <<Head(lets)>> ELSE <<>>
        first == <<OnCallAssignment(participant, covers_window)>>
        requester_takes(chain) ==
            IF offer.requester \notin chain
            THEN <<OnCallAssignment(offer.requester, needs_window)>>
            ELSE <<>>
    IN  IF chosen # <<>>
           /\ offer.partial_commitments[chosen[1]].from_participant # participant
        THEN LET committer == offer.partial_commitments[chosen[1]].from_participant
                 let_participant_need ==
                     SelectSeq(offer.outstanding_needs, LAMBDA n : n.owner = committer)
                 second == Append(first, OnCallAssignment(committer, offer.let_window))
             IN  IF let_participant_need # <<>>
                    /\ to_tuple(let_participant_need[1].window) = to_tuple(covers_window)
                 THEN second \o requester_takes({participant, committer})
                 ELSE second \o requester_takes({participant, committer})
        ELSE first \o requester_takes({participant})

\* What one accept_cover call leaves behind: the offer as stored, the
\* overrides and notifications it adds, how it ended and what it returned.
Outcome(offer, overrides, notified, result, returned) ==
    [offer |-> offer, overrides |-> overrides, notified |-> notified,
     result |-> result, returned |-> returned]

\* Lines 157-164 passing the two assignments of the swap to
\* notify_direct_swap as all_assignments.
complete_direct_swap_attaching_assignments(offer, participant, needs_window) ==
    LET done == record_direct_swap(offer, participant, needs_window)
        swap == done.direct_agreements[Len(done.direct_agreements)]
    IN  Outcome(done,
                apply_direct_override(done, swap.participant, swap.in_exchange_for),
                <<notify_direct_swap(done, swap.participant, swap.in_exchange_for,
                     <<OnCallAssignment(swap.participant, done.let_window),
                       OnCallAssignment(done.requester, swap.in_exchange_for)>>)>>,
                Returned, <<swap>>)

\* accept_cover, lines 157-164 (and 189-194): record the direct swap, store
\* the offer, apply the two overrides, notify, return the swap.
complete_direct_swap(offer, participant, needs_window) ==
    LET done == record_direct_swap(offer, participant, needs_window)
        swap == done.direct_agreements[Len(done.direct_agreements)]
    IN  Outcome(done,
                apply_direct_override(done, swap.participant, swap.in_exchange_for),
                <<notify_direct_swap(done, swap.participant, swap.in_exchange_for, <<>>)>>,
                Returned, <<swap>>)

\* accept_cover, lines 264-271: apply the chain's overrides, mark the offer
\* fulfilled, clear the needs, store, notify with the assignments, return None.
complete_ring_closure(offer, participant, covers_window, needs_window) ==
    LET assignments == closure_assignments(offer, participant, covers_window, needs_window)
        done == [offer EXCEPT !.status = FULFILLED, !.outstanding_needs = <<>>]
    IN  Outcome(done,
                apply_overrides(offer.schedule_id, assignments),
                <<notify_direct_swap(done, participant, needs_window, assignments)>>,
                Returned, <<>>)

\* complete_ring_update without the test of lines 300 and 323: the
\* responder's need is appended whatever needs are outstanding.
complete_ring_update_always_appending(offer, participant, needs_window) ==
    LET done == [offer EXCEPT !.outstanding_needs =
                    Append(@, WindowNeed(participant, needs_window, FALSE))]
    IN  Outcome(done, <<>>, <<notify_ring_update(done)>>, Returned, <<>>)

\* Lines 300-306 and 323-331 without the append of lines 301-303 and
\* 324-326: the responder's need is never recorded.
complete_ring_update_without_need(offer, participant, needs_window) ==
    Outcome(offer, <<>>, <<notify_ring_update(offer)>>, Returned, <<>>)

\* Lines 300-306 and 323-331 applying, at once, the override that gives the
\* responder the window just committed to (the last partial commitment).
complete_ring_update_applying_override(offer, participant, needs_window) ==
    LET dates == { date(offer.outstanding_needs[i].window.start) :
                      i \in 1 .. Len(offer.outstanding_needs) }
        done == IF date(needs_window.start) \notin dates
                THEN [offer EXCEPT !.outstanding_needs =
                        Append(@, WindowNeed(participant, needs_window, FALSE))]
                ELSE offer
    IN  Outcome(done,
                apply_overrides(offer.schedule_id,
                    <<OnCallAssignment(participant,
                        offer.partial_commitments[Len(offer.partial_commitments)].window)>>),
                <<notify_ring_update(done)>>, Returned, <<>>)

\* accept_cover, lines 300-306 and 323-331: add the responder's own need
\* unless a need starting on that date exists, store, notify, return None.
complete_ring_update(offer, participant, needs_window) ==
    LET dates == { date(offer.outstanding_needs[i].window.start) :
                      i \in 1 .. Len(offer.outstanding_needs) }
        done == IF date(needs_window.start) \notin dates
                THEN [offer EXCEPT !.outstanding_needs =
                        Append(@, WindowNeed(participant, needs_window, FALSE))]
                ELSE offer
    IN  Outcome(done, <<>>, <<notify_ring_update(done)>>, Returned, <<>>)

\* accept_cover raising: nothing stored, applied or notified.
raise(offer, error) == Outcome(offer, <<>>, <<>>, error, <<>>)

\* accept_cover, lines 166-202: a direct swap whose covers_window does not
\* overlap the let window by date and matches no need.
direct_without_need(offer, participant, covers_window, needs_window) ==
    LET same_start(c) == date(c.window.start) = date(offer.let_window.start)
        let_commitment == SelectSeq(offer.partial_commitments, same_start)
    IN  IF covers_let_window(offer, covers_window) /\ let_commitment # <<>>
        THEN complete_direct_swap(
                [offer EXCEPT
                    !.partial_commitments = SelectSeq(@, LAMBDA c : ~same_start(c)),
                    !.outstanding_needs =
                        SelectSeq(@, LAMBDA n :
                            ~(n.owner = let_commitment[1].from_participant
                              /\ ~n.created_by_offer))],
                participant, needs_window)
        ELSE raise(offer, NoMatchingNeed)

\* The ring contribution without line 320: the covered need stays
\* outstanding.
ring_contribution_without_resolve(offer, participant, covers_window, needs_window) ==
    LET need == find_need(offer, covers_window)
    IN  IF need # <<>>
        THEN complete_ring_update(add_commitment(offer, participant, need[1]),
                                  participant, needs_window)
        ELSE IF covers_let_window(offer, covers_window) /\ let_commitments(offer) # <<>>
        THEN complete_ring_update(
                add_commitment(offer, participant,
                               WindowNeed(offer.requester, offer.let_window, TRUE)),
                participant, needs_window)
        ELSE raise(offer, NoMatchingNeed)

\* The ring contribution without lines 276-307: a covers_window matching no
\* need always raises.
ring_contribution_without_additional(offer, participant, covers_window, needs_window) ==
    LET need == find_need(offer, covers_window)
    IN  IF need # <<>>
        THEN complete_ring_update(
                resolve_need(add_commitment(offer, participant, need[1]), covers_window),
                participant, needs_window)
        ELSE raise(offer, NoMatchingNeed)

\* accept_cover, lines 273-331: the ring contribution.
ring_contribution(offer, participant, covers_window, needs_window) ==
    LET need == find_need(offer, covers_window)
    IN  IF need # <<>>
        THEN complete_ring_update(
                resolve_need(add_commitment(offer, participant, need[1]), covers_window),
                participant, needs_window)
        ELSE IF covers_let_window(offer, covers_window) /\ let_commitments(offer) # <<>>
        THEN complete_ring_update(
                add_commitment(offer, participant,
                               WindowNeed(offer.requester, offer.let_window, TRUE)),
                participant, needs_window)
        ELSE raise(offer, NoMatchingNeed)

\* accept_cover testing the needs-windows (lines 80-81) before is_active
\* (lines 73-74).
accept_cover_needs_first(offer, participant, covers_window, needs_windows) ==
    IF needs_windows = <<>> THEN raise(offer, MissingNeedWindow)
    ELSE IF ~is_active(offer) THEN raise(offer, OfferNotActiveError)
    ELSE LET needs_window == needs_windows[1]
         IN  IF is_direct(offer, needs_window)
             THEN IF covers_let_window(offer, covers_window)
                  THEN complete_direct_swap(preempt_ring(offer), participant, needs_window)
                  ELSE IF find_need(offer, covers_window) = <<>>
                  THEN direct_without_need(offer, participant, covers_window, needs_window)
                  ELSE complete_ring_closure(offer, participant, covers_window, needs_window)
             ELSE ring_contribution(offer, participant, covers_window, needs_window)

\* SwapNegotiationService.accept_cover on the stored offer.
accept_cover(offer, participant, covers_window, needs_windows) ==
    IF ~is_active(offer) THEN raise(offer, OfferNotActiveError)
    ELSE IF needs_windows = <<>> THEN raise(offer, MissingNeedWindow)
    ELSE LET needs_window == needs_windows[1]
         IN  IF is_direct(offer, needs_window)
             THEN IF covers_let_window(offer, covers_window)
                  THEN complete_direct_swap(preempt_ring(offer), participant, needs_window)
                  ELSE IF find_need(offer, covers_window) = <<>>
                  THEN direct_without_need(offer, participant, covers_window, needs_window)
                  ELSE complete_ring_closure(offer, participant, covers_window, needs_window)
             ELSE ring_contribution(offer, participant, covers_window, needs_window)

\* ------------------------------------------------------------------- state
VARIABLES
    storage,        \* InMemoryOfferRepository._storage: offer id -> SwapOffer
    applied,        \* the overrides the override port has received, in order
    notifications,  \* the notifications the Slack port has received, in order
    last,           \* the last call: its operation, how it ended, its arguments
                    \* (of a call that returned) and what it returned
    calls           \* the accept_cover calls running in handler threads:
                    \* thread -> where the call is and what it holds

vars == <<storage, applied, notifications, last, calls>>

\* The inputs the calls are drawn from. A let window starts in the first half
\* of the time line, so that windows before and after it exist.
LetWindows == { w \in Windows : 2 * w.start < MaxTime }

SearchLists ==
    UNION { [1 .. n -> Windows] : n \in 1 .. MaxSearch }

NeedsLists ==
    {<<>>} \cup { <<w>> : w \in Windows }
           \cup { <<w, w>> : w \in { x \in Windows : x.end = MaxTime } }

\* The last call made: the operation, the offer it names, how it ended, its
\* arguments when it returned, and the value it returned.
Call(op, offer_id, result, args, returned) ==
    [op |-> op, offer_id |-> offer_id, result |-> result, args |-> args,
     returned |-> returned]

\* After construction: an empty repository, nothing applied or notified.
Init ==
    /\ storage = <<>>
    /\ applied = <<>>
    /\ notifications = <<>>
    /\ last = Call("init", 0, Returned, {}, <<>>)
    /\ calls = <<>>

\* SwapNegotiationService.create_offer
CreateOffer(id, requester, let_window, search_windows, now) ==
    /\ id \notin DOMAIN storage
    /\ IF create_ok(let_window, search_windows, now)
       THEN LET offer == SwapOffer(id, requester, ScheduleId, let_window, search_windows)
            IN  /\ storage' = (id :> offer) @@ storage
                /\ notifications' = Append(notifications, announce_offer(offer))
                /\ last' = Call("create_offer", id, Returned,
                                {[requester |-> requester, let_window |-> let_window,
                                  search_windows |-> search_windows]}, <<>>)
       ELSE /\ UNCHANGED <<storage, notifications>>
            /\ last' = Call("create_offer", id, TimeWindowInPastError, {}, <<>>)
    /\ UNCHANGED <<applied, calls>>

\* accept_cover, lines 157-161, when the override port raises in its
\* failing-th apply_override of the call: the swap is recorded and stored, the
\* overrides before the failing one are applied, nothing is notified.
direct_swap_override_failure(offer, participant, needs_window, failing) ==
    LET done == record_direct_swap(offer, participant, needs_window)
        swap == done.direct_agreements[Len(done.direct_agreements)]
    IN  Outcome(done,
                SubSeq(apply_direct_override(done, swap.participant, swap.in_exchange_for),
                       1, failing - 1),
                <<>>, ConnectionError, <<>>)

\* accept_cover, lines 204-265, when the override port raises in its
\* failing-th apply_override of the call: the offer is not yet changed.
ring_closure_override_failure(offer, participant, covers_window, needs_window, failing) ==
    Outcome(offer,
            SubSeq(apply_overrides(offer.schedule_id,
                       closure_assignments(offer, participant, covers_window, needs_window)),
                   1, failing - 1),
            <<>>, ConnectionError, <<>>)

\* accept_cover when the override port raises in its failing-th
\* apply_override of the call (a call that applies fewer overrides runs as
\* accept_cover does).
accept_cover_override_failure(offer, participant, covers_window, needs_windows, failing) ==
    IF ~is_active(offer) \/ needs_windows = <<>>
    THEN accept_cover(offer, participant, covers_window, needs_windows)
    ELSE LET needs_window == needs_windows[1]
         IN  IF is_direct(offer, needs_window) /\ covers_let_window(offer, covers_window)
                /\ failing <= 2
             THEN direct_swap_override_failure(preempt_ring(offer), participant,
                                               needs_window, failing)
             ELSE IF /\ is_direct(offer, needs_window)
                     /\ ~covers_let_window(offer, covers_window)
                     /\ find_need(offer, covers_window) # <<>>
                     /\ failing <= Len(closure_assignments(offer, participant,
                                                           covers_window, needs_window))
             THEN ring_closure_override_failure(offer, participant, covers_window,
                                                needs_window, failing)
             ELSE accept_cover(offer, participant, covers_window, needs_windows)

\* accept_cover as it would act if the offers' list fields were one list
\* object shared by every SwapOffer (a mutable class-level default): the
\* commitments of the offer it changes show in every stored offer.
AcceptCoverOnSharedLists(id, participant, covers_window, needs_windows) ==
    /\ id \in DOMAIN storage
    /\ \E r \in {accept_cover(storage[id], participant, covers_window, needs_windows)} :
           /\ Len(r.offer.partial_commitments) <= MaxCommitments
           /\ storage' = [k \in DOMAIN storage |->
                            IF k = id THEN r.offer
                            ELSE [storage[k] EXCEPT
                                    !.partial_commitments = r.offer.partial_commitments]]
           /\ applied' = applied \o r.overrides
           /\ notifications' = notifications \o r.notified
           /\ last' = Call("accept_cover", id, r.result,
                           IF r.result = Returned
                           THEN {[offer_id |-> id, participant |-> participant,
                                  covers_window |-> covers_window,
                                  needs_windows |-> needs_windows]}
                           ELSE {},
                           r.returned)
    /\ UNCHANGED calls

\* SwapNegotiationService.accept_cover on a stored offer, the ports working.
AcceptCover(id, participant, covers_window, needs_windows) ==
    /\ id \in DOMAIN storage
    /\ \E r \in {accept_cover(storage[id], participant, covers_window, needs_windows)} :
           /\ Len(r.offer.partial_commitments) <= MaxCommitments
           /\ storage' = [storage EXCEPT ![id] = r.offer]
           /\ applied' = applied \o r.overrides
           /\ notifications' = notifications \o r.notified
           /\ last' = Call("accept_cover", id, r.result,
                           IF r.result = Returned
                           THEN {[offer_id |-> id, participant |-> participant,
                                  covers_window |-> covers_window,
                                  needs_windows |-> needs_windows]}
                           ELSE {},
                           r.returned)
    /\ UNCHANGED calls

\* SwapNegotiationService.accept_cover naming an id the repository does not
\* hold: _get_offer raises.
AcceptCoverUnknownOffer(id) ==
    /\ id \notin DOMAIN storage
    /\ last' = Call("accept_cover", id, OfferNotFoundError, {}, <<>>)
    /\ UNCHANGED <<storage, applied, notifications, calls>>

\* SwapNegotiationService.accept_cover on a stored offer when the override
\* port raises in one (the failing-th) of the apply_override calls the
\* handler makes.
AcceptCoverOverrideFailure(id, participant, covers_window, needs_windows) ==
    /\ id \in DOMAIN storage
    /\ Len(applied) < MaxAppliedBeforeFailure
    /\ \E ok \in {accept_cover(storage[id], participant, covers_window, needs_windows)} :
       \E failing \in 1 .. Len(ok.overrides) :
       \E r \in {accept_cover_override_failure(storage[id], participant, covers_window,
                                                needs_windows, failing)} :
           /\ storage' = [storage EXCEPT ![id] = r.offer]
           /\ applied' = applied \o r.overrides
           /\ notifications' = notifications \o r.notified
           /\ last' = Call("accept_cover", id, r.result, {}, r.returned)
    /\ UNCHANGED calls

\* SwapOffer.cancel on a stored offer.
Cancel(id) ==
    /\ id \in DOMAIN storage
    /\ storage' = [storage EXCEPT ![id] = cancel(@)]
    /\ last' = Call("cancel", id, Returned, {[offer_id |-> id]}, <<>>)
    /\ UNCHANGED <<applied, notifications, calls>>

\* The participants an offer mentions.
participants_of(offer) ==
    {offer.requester}
        \cup { offer.outstanding_needs[i].owner : i \in 1 .. Len(offer.outstanding_needs) }
        \cup { offer.partial_commitments[i].from_participant :
                  i \in 1 .. Len(offer.partial_commitments) }

\* SwapNegotiationService._ensure_participant: the participant of an email
\* the directory knows, or a new one with a fresh id. Ids are uuid4 values the
\* code only compares for equality, so a participant new to the offer is
\* given the least id the offer does not mention yet.
Responders(offer) ==
    { p \in Participants : \A q \in Participants \ participants_of(offer) : p <= q }

\* The argument tuples of accept_cover. A call on an offer that is not active
\* raises before it reads any argument (lines 72-74), so one tuple stands for
\* all of them there.
AcceptInputs(offer) ==
    IF is_active(offer)
    THEN [participant : Responders(offer), covers_window : Windows,
          needs_windows : NeedsLists]
    ELSE [participant : {offer.requester}, covers_window : {offer.let_window},
          needs_windows : {<<>>}]

Next ==
    \/ \E id \in OfferIds \ DOMAIN storage :
          \E let_window \in LetWindows, search_windows \in SearchLists, now \in Nows :
             CreateOffer(id, 1, let_window, search_windows, now)
    \/ \E id \in DOMAIN storage :
          \E a \in AcceptInputs(storage[id]) :
             AcceptCover(id, a.participant, a.covers_window, a.needs_windows)
    \/ \E id \in DOMAIN storage : Cancel(id)

Spec == Init /\ [][Next]_vars

\* SwapNegotiationService.create_offer when no notification port is
\* configured: the offer is built and added to the repository (lines 58-65),
\* then _require_slack_ports raises (line 67) before announce_offer.
CreateOfferWithoutNotifier(id, requester, let_window, search_windows, now) ==
    /\ id \notin DOMAIN storage
    /\ IF create_ok(let_window, search_windows, now)
       THEN /\ storage' = (id :> SwapOffer(id, requester, ScheduleId, let_window,
                                           search_windows)) @@ storage
            /\ last' = Call("create_offer", id, RuntimeError, {}, <<>>)
       ELSE /\ UNCHANGED storage
            /\ last' = Call("create_offer", id, TimeWindowInPastError, {}, <<>>)
    /\ UNCHANGED <<applied, notifications, calls>>

\* The service with ports that can fail and commands that name unknown
\* offers, for offers letting the window that starts at slot 1; without a
\* notification port, for offers searching first the window at slot 0.
NextWithFaults ==
    \/ \E id \in OfferIds \ DOMAIN storage :
          \E let_window \in { w \in LetWindows : w.start = 1 },
             search_windows \in SearchLists, now \in Nows :
             CreateOffer(id, 1, let_window, search_windows, now)
    \/ \E id \in DOMAIN storage :
          \E a \in AcceptInputs(storage[id]) :
             AcceptCover(id, a.participant, a.covers_window, a.needs_windows)
    \/ \E id \in DOMAIN storage : Cancel(id)
    \/ \E id \in CommandOfferIds : AcceptCoverUnknownOffer(id)
    \/ \E id \in DOMAIN storage :
          \E a \in AcceptInputs(storage[id]) :
             AcceptCoverOverrideFailure(id, a.participant, a.covers_window, a.needs_windows)
    \/ \E id \in OfferIds \ DOMAIN storage :
          \E let_window \in { w \in LetWindows : w.start = 1 },
             search_windows \in { l \in SearchLists : l[1].start = 0 }, now \in Nows :
             CreateOfferWithoutNotifier(id, 1, let_window, search_windows, now)

SpecWithFaults == Init /\ [][NextWithFaults]_vars

\* ------------------------------------------------- concurrent accept_cover
\* The Slack app runs each listener in a worker thread, so accept_cover calls
\* overlap. The repository hands every caller the one stored object
\* (InMemoryOfferRepository.get), so a call's writes are seen by the others
\* at once and repository.update stores the object it already holds. A call
\* is cut into: load and check-active (lines 72-74); the handler body up to
\* its writes to the offer (mutate and persist); applying the overrides and
\* notifying.
Threads == 1 .. MaxThreads

\* accept_cover, lines 76-331: the handler after its is_active check, run on
\* the offer as it is now. The body never reads the status, and writes it
\* only where it fulfils the offer.
accept_cover_body(offer, participant, covers_window, needs_windows) ==
    LET r == accept_cover([offer EXCEPT !.status = ACTIVE], participant,
                          covers_window, needs_windows)
    IN  IF r.offer.status = ACTIVE
        THEN [r EXCEPT !.offer = [r.offer EXCEPT !.status = offer.status]]
        ELSE r

\* A handler thread enters accept_cover and loads the offer (line 72).
BeginAcceptCover(t, id, participant, covers_window, needs_windows) ==
    /\ t \notin DOMAIN calls
    /\ id \in DOMAIN storage
    /\ calls' = (t :> [pc |-> "check", offer_id |-> id, participant |-> participant,
                       covers_window |-> covers_window, needs_windows |-> needs_windows,
                       overrides |-> <<>>, notified |-> <<>>, closes_ring |-> FALSE,
                       result |-> Returned, returned |-> <<>>]) @@ calls
    /\ UNCHANGED <<storage, applied, notifications, last>>

\* Lines 73-74: the is_active check of the thread's call.
CheckActive(t) ==
    /\ t \in DOMAIN calls
    /\ calls[t].pc = "check"
    /\ IF is_active(storage[calls[t].offer_id])
       THEN /\ calls' = [calls EXCEPT ![t].pc = "mutate"]
            /\ UNCHANGED last
       ELSE /\ calls' = [calls EXCEPT ![t].pc = "done", ![t].result = OfferNotActiveError]
            /\ last' = Call("accept_cover", calls[t].offer_id, OfferNotActiveError, {}, <<>>)
    /\ UNCHANGED <<storage, applied, notifications>>

\* Lines 76-160, 204-262, 273-329: the body computes its outcome from the
\* offer as it is now and writes it to the offer. A ring closure writes
\* nothing before its overrides are applied (lines 264-267).
Mutate(t) ==
    /\ t \in DOMAIN calls
    /\ calls[t].pc = "mutate"
    /\ \E r \in {accept_cover_body(storage[calls[t].offer_id], calls[t].participant,
                                    calls[t].covers_window, calls[t].needs_windows)} :
       LET closes_ring == r.returned = <<>> /\ r.overrides # <<>>
       IN  /\ Len(r.offer.partial_commitments) <= MaxCommitments
           /\ storage' = IF closes_ring THEN storage
                         ELSE [storage EXCEPT ![calls[t].offer_id] = r.offer]
           /\ IF r.result = Returned
              THEN /\ calls' = [calls EXCEPT ![t].pc = "apply",
                                             ![t].overrides = r.overrides,
                                             ![t].notified = r.notified,
                                             ![t].closes_ring = closes_ring,
                                             ![t].returned = r.returned]
                   /\ UNCHANGED last
              ELSE /\ calls' = [calls EXCEPT ![t].pc = "done", ![t].result = r.result]
                   /\ last' = Call("accept_cover", calls[t].offer_id, r.result, {}, <<>>)
    /\ UNCHANGED <<applied, notifications>>

\* Lines 161-164, 265-271, 330-331: apply the overrides, then (ring closure)
\* mark the offer fulfilled and clear its needs, notify and return.
ApplyOverrides(t) ==
    /\ t \in DOMAIN calls
    /\ calls[t].pc = "apply"
    /\ applied' = applied \o calls[t].overrides
    /\ storage' = IF calls[t].closes_ring
                  THEN [storage EXCEPT ![calls[t].offer_id] =
                           [@ EXCEPT !.status = FULFILLED, !.outstanding_needs = <<>>]]
                  ELSE storage
    /\ notifications' = notifications \o calls[t].notified
    /\ calls' = [calls EXCEPT ![t].pc = "done"]
    /\ last' = Call("accept_cover", calls[t].offer_id, Returned,
                    {[offer_id |-> calls[t].offer_id, participant |-> calls[t].participant,
                      covers_window |-> calls[t].covers_window,
                      needs_windows |-> calls[t].needs_windows]},
                    calls[t].returned)

\* Two responders answer one offer at about the same time: thread t runs the
\* call of responder t + 1.
NextConcurrent ==
    \/ \E id \in OfferIds \ DOMAIN storage :
          \E let_window \in { w \in LetWindows : w.start = 1 },
             search_windows \in { l \in SearchLists : l[1].start > 3 } :
             CreateOffer(id, 1, let_window, search_windows, 0)
    \/ \E t \in Threads, id \in DOMAIN storage :
          \E covers_window \in Windows, needs_windows \in { <<w>> : w \in Windows } :
             BeginAcceptCover(t, id, t + 1, covers_window, needs_windows)
    \/ \E t \in Threads : CheckActive(t)
    \/ \E t \in Threads : Mutate(t)
    \/ \E t \in Threads : ApplyOverrides(t)

SpecConcurrent == Init /\ [][NextConcurrent]_vars

\* ------------------------------------------------------------- two offers
\* The repository holding two offers, of requesters 1 and 2, each letting
\* the window at slot 1 and searching the window at slot 4; participants 3
\* and 4 respond to either, covering the let window or the window at slot 2
\* and needing the window at slot 2 or at slot 4, or none.
TwoOfferIds == {1, 2}

NextTwoOffers ==
    \/ \E id \in TwoOfferIds \ DOMAIN storage :
          CreateOffer(id, id, [start |-> 1, end |-> 2], <<[start |-> 4, end |-> 5]>>, 0)
    \/ \E id \in DOMAIN storage :
          \E participant \in {3, 4},
             covers_window \in { w \in Windows : w.start \in {1, 2} },
             needs_windows \in {<<>>} \cup { <<w>> : w \in { x \in Windows : x.start \in {2, 4} } } :
             AcceptCover(id, participant, covers_window, needs_windows)

SpecTwoOffers == Init /\ [][NextTwoOffers]_vars

\* -------------------------------------------------------- upcoming windows
\* Email addresses, as sequences of characters: those asked for, those the
\* provider's timeline holds, and str.lower on them.
Emails == { <<"p">>, <<"q">> }
RecipientEmails == { <<"P">>, <<"q">> }

lower(email) == [i \in DOMAIN email |-> IF email[i] = "P" THEN "p" ELSE email[i]]

\* The periods of the provider's timeline: a recipient's email and the
\* coverage start and end.
Periods ==
    { [email |-> e, start |-> t, end |-> t + n] :
        e \in RecipientEmails, t \in 0 .. (MaxTime - MaxPeriodLength),
        n \in 1 .. MaxPeriodLength }

Timelines == UNION { [1 .. n -> Periods] : n \in 0 .. MaxPeriods }

\* OpsgenieClient.list_oncall: an assignment for every period of the
\* timeline that overlaps [start, end), with the period's whole window.
list_oncall(timeline, start, end) ==
    LET kept == SelectSeq(timeline, LAMBDA entry : ~(entry.end <= start \/ entry.start >= end))
    IN  [i \in 1 .. Len(kept) |->
            OnCallAssignment([email |-> kept[i].email],
                             [start |-> kept[i].start, end |-> kept[i].end])]

\* SwapNegotiationService.get_upcoming_windows
get_upcoming_windows(timeline, participant_email, horizon_days, now) ==
    LET window_start == now
        window_end == window_start + horizon_days * SlotsPerDay
        assignments == list_oncall(timeline, window_start, window_end)
        target_email == lower(participant_email)
        own == SelectSeq(assignments, LAMBDA a : lower(a.participant.email) = target_email)
    IN  [i \in 1 .. Len(own) |-> own[i].window]

\* A get_upcoming_windows call against a provider holding the timeline; the
\* call's arguments and the assignments the reader reported are kept.
GetUpcomingWindows(timeline, participant_email, horizon_days, now) ==
    /\ last' = Call("get_upcoming_windows", 0, Returned,
                    {[participant_email |-> participant_email,
                      horizon_days |-> horizon_days, now |-> now,
                      reported |-> list_oncall(timeline, now, now + horizon_days * SlotsPerDay)]},
                    get_upcoming_windows(timeline, participant_email, horizon_days, now))
    /\ UNCHANGED <<storage, applied, notifications, calls>>

NextUpcoming ==
    \E timeline \in Timelines, participant_email \in Emails,
       horizon_days \in 1 .. MaxHorizonDays, now \in 1 .. 2 :
        GetUpcomingWindows(timeline, participant_email, horizon_days, now)

SpecUpcoming == Init /\ [][NextUpcoming]_vars

\* ------------------------------------------------- the aggregate, directly
\* RingCandidate
RingCandidate(participant, covers_window, needs_windows) ==
    [participant |-> participant, covers_window |-> covers_window,
     needs_windows |-> needs_windows]

\* What RingSwap.validate_ring_chain raises.
RingTooShort == "ValueError: Ring swap requires at least three commitments"
RingRepeatsParticipant ==
    "ValueError: Each commitment must originate from a unique participant"

\* validate_ring_chain without lines 103-105: only the length is tested.
validate_ring_chain_by_length(commitments) ==
    IF Len(commitments) < 3 THEN RingTooShort ELSE Returned

\* RingSwap.validate_ring_chain: Returned when the RingSwap is constructed,
\* else what is raised.
validate_ring_chain(commitments) ==
    IF Len(commitments) < 3 THEN RingTooShort
    ELSE IF Cardinality({ commitments[i].from_participant : i \in 1 .. Len(commitments) })
                # Len(commitments)
    THEN RingRepeatsParticipant
    ELSE Returned

\* RingSwap
RingSwap(commitments) == [commitments |-> commitments]

\* SwapOffer.add_available_windows: each window is appended unless a window
\* with its (start, end) is in the list by then.
RECURSIVE add_available_windows(_, _)
add_available_windows(offer, windows) ==
    IF windows = <<>> THEN offer
    ELSE add_available_windows(
            IF \E i \in 1 .. Len(offer.available_windows) :
                   to_tuple(offer.available_windows[i]) = to_tuple(Head(windows))
            THEN offer
            ELSE [offer EXCEPT !.available_windows = Append(@, Head(windows))],
            Tail(windows))

\* SwapOffer.record_ring_candidate
record_ring_candidate(offer, participant, needs_windows) ==
    LET candidate == RingCandidate(participant, offer.let_window, needs_windows)
        noted == [offer EXCEPT !.ring_candidates = Append(@, candidate)]
        widened == add_available_windows(noted, candidate.needs_windows)
    IN  [widened EXCEPT !.outstanding_needs =
            @ \o [i \in 1 .. Len(needs_windows) |->
                      WindowNeed(participant, needs_windows[i], FALSE)]]

\* SwapOffer.record_ring_swap
record_ring_swap(offer, ring) ==
    [offer EXCEPT
        !.ring_swaps = Append(@, ring),
        !.status = FULFILLED,
        !.outstanding_needs = <<>>,
        !.partial_commitments = <<>>]

\* The windows the aggregate is driven with, and the lists of them.
FewWindows == { w \in Windows : w.start \in {2, 3} }

WindowLists == UNION { [1 .. n -> FewWindows] : n \in 0 .. MaxWindowList }

\* The commitments lists a RingSwap is built from: each participant of a
\* list covers the window for the next one, the last for the first.
RingLists(window) ==
    { [i \in 1 .. Len(ps) |-> RingSwapCommitment(ps[i], ps[(i % Len(ps)) + 1], window)] :
        ps \in UNION { [1 .. n -> Participants] : n \in 0 .. MaxRingLength } }

\* SwapOffer.create, called directly; the offer is kept under its id.
Create(id, requester, let_window, search_windows, now) ==
    /\ id \notin DOMAIN storage
    /\ IF create_ok(let_window, search_windows, now)
       THEN /\ storage' = (id :> SwapOffer(id, requester, ScheduleId, let_window,
                                           search_windows)) @@ storage
            /\ last' = Call("create", id, Returned, {}, <<>>)
       ELSE /\ UNCHANGED storage
            /\ last' = Call("create", id, TimeWindowInPastError, {}, <<>>)
    /\ UNCHANGED <<applied, notifications, calls>>

\* SwapOffer.add_available_windows on a kept offer.
AddAvailableWindows(id, windows) ==
    /\ id \in DOMAIN storage
    /\ storage' = [storage EXCEPT ![id] = add_available_windows(@, windows)]
    /\ last' = Call("add_available_windows", id, Returned, {}, <<>>)
    /\ UNCHANGED <<applied, notifications, calls>>

\* SwapOffer.record_ring_candidate on a kept offer.
RecordRingCandidate(id, participant, needs_windows) ==
    /\ id \in DOMAIN storage
    /\ Len(storage[id].ring_candidates) < MaxCandidates
    /\ storage' = [storage EXCEPT ![id] = record_ring_candidate(@, participant, needs_windows)]
    /\ last' = Call("record_ring_candidate", id, Returned, {}, <<>>)
    /\ UNCHANGED <<applied, notifications, calls>>

\* RingSwap(commitments=...) and, when it is constructed,
\* SwapOffer.record_ring_swap on a kept offer.
RecordRingSwap(id, commitments) ==
    /\ id \in DOMAIN storage
    /\ Len(storage[id].ring_swaps) < MaxRingSwaps
    /\ IF validate_ring_chain(commitments) = Returned
       THEN storage' = [storage EXCEPT ![id] = record_ring_swap(@, RingSwap(commitments))]
       ELSE UNCHANGED storage
    /\ last' = Call("record_ring_swap", id, validate_ring_chain(commitments), {}, <<>>)
    /\ UNCHANGED <<applied, notifications, calls>>

NextAggregate ==
    \/ \E id \in OfferIds \ DOMAIN storage :
          \E search_windows \in WindowLists \ {<<>>}, now \in Nows :
             Create(id, 1, [start |-> 1, end |-> 2], search_windows, now)
    \/ \E id \in DOMAIN storage :
          \E windows \in WindowLists : AddAvailableWindows(id, windows)
    \/ \E id \in DOMAIN storage :
          \E needs_windows \in WindowLists : RecordRingCandidate(id, 2, needs_windows)
    \/ \E id \in DOMAIN storage :
          \E commitments \in RingLists(storage[id].let_window) :
             RecordRingSwap(id, commitments)

SpecAggregate == Init /\ [][NextAggregate]_vars

\* ------------------------------------------------------------ time windows
\* Instants of the datetimes a TimeWindow is constructed from.
MaxInstant == 4
Instants == 0 .. MaxInstant

\* What TimeWindow.validate_non_empty raises.
InvalidWindow == "ValueError: end must be greater than start"

\* TimeWindowDTO: any two datetimes.
TimeWindowDTOs == [start : Instants, end : Instants]

\* How a construction ends: Returned with the value in a one-element
\* sequence (the empty sequence for None), or what was raised.
Constructed(result, returned) == [result |-> result, returned |-> returned]

\* TimeWindow(start=..., end=...)
TimeWindow(start, end) ==
    IF validate_non_empty(start, end)
    THEN Constructed(Returned, <<[start |-> start, end |-> end]>>)
    ELSE Constructed(InvalidWindow, <<>>)

\* max and min of two datetimes
max(a, b) == IF a >= b THEN a ELSE b
min(a, b) == IF a <= b THEN a ELSE b

\* TimeWindow.intersection
intersection(a, b) ==
    IF ~overlaps(a, b)
    THEN Constructed(Returned, <<>>)
    ELSE TimeWindow(max(a.start, b.start), min(a.end, b.end))

\* SwapNegotiationService._to_window
to_window(dto) == TimeWindow(dto.start, dto.end)

\* The TimeWindow values that exist: those some construction returns.
TimeWindows ==
    { r.returned[1] : r \in { c \in { TimeWindow(start, end) : start, end \in Instants } :
                                 c.result = Returned } }

\* TimeWindow(start=start, end=end)
Construct(start, end) ==
    /\ \E r \in {TimeWindow(start, end)} :
          last' = Call("TimeWindow", 0, r.result, {[start |-> start, end |-> end]},
                       r.returned)
    /\ UNCHANGED <<storage, applied, notifications, calls>>

\* a.overlaps(b)
Overlaps(a, b) ==
    /\ last' = Call("overlaps", 0, Returned, {[a |-> a, b |-> b]}, <<overlaps(a, b)>>)
    /\ UNCHANGED <<storage, applied, notifications, calls>>

\* a.intersection(b)
Intersection(a, b) ==
    /\ \E r \in {intersection(a, b)} :
          last' = Call("intersection", 0, r.result, {[a |-> a, b |-> b]}, r.returned)
    /\ UNCHANGED <<storage, applied, notifications, calls>>

\* create_offer on a command's DTOs: lines 55-56 convert them before the
\* offer is created.
CreateOfferFromDTOs(id, requester, let_window, search_windows, now) ==
    /\ id \notin DOMAIN storage
    /\ IF \E dto \in {let_window} \cup { search_windows[i] : i \in DOMAIN search_windows } :
             to_window(dto).result # Returned
       THEN /\ last' = Call("create_offer", id, InvalidWindow, {}, <<>>)
            /\ UNCHANGED <<storage, applied, notifications, calls>>
       ELSE CreateOffer(id, requester, to_window(let_window).returned[1],
                        [i \in DOMAIN search_windows |->
                            to_window(search_windows[i]).returned[1]], now)

\* accept_cover on a command's DTOs: lines 72-78 find the offer, test that
\* it is active, then convert covers_window and needs_windows[0].
AcceptCoverFromDTOs(id, participant, covers_window, needs_windows) ==
    /\ id \in DOMAIN storage
    /\ IF /\ is_active(storage[id])
          /\ \E dto \in {covers_window} \cup { needs_windows[i] : i \in DOMAIN needs_windows \cap {1} } :
                to_window(dto).result # Returned
       THEN /\ last' = Call("accept_cover", id, InvalidWindow, {}, <<>>)
            /\ UNCHANGED <<storage, applied, notifications, calls>>
       ELSE IF is_active(storage[id])
            THEN AcceptCover(id, participant, to_window(covers_window).returned[1],
                             [i \in DOMAIN needs_windows \cap {1} |->
                                 to_window(needs_windows[i]).returned[1]])
            ELSE AcceptCover(id, participant, [start |-> 0, end |-> 1], <<>>)

NextTimeWindow ==
    \/ \E start, end \in Instants : Construct(start, end)
    \/ \E a, b \in TimeWindows : Overlaps(a, b)
    \/ \E a, b \in TimeWindows : Intersection(a, b)
    \/ \E let_window \in { dto \in TimeWindowDTOs : dto.start = 1 },
          search_window \in { dto \in TimeWindowDTOs : dto.start = 3 } :
          CreateOfferFromDTOs(1, 1, let_window, <<search_window>>, 0)
    \/ \E covers_window \in { dto \in TimeWindowDTOs : dto.start = 1 },
          needs_windows \in {<<>>} \cup { <<dto>> : dto \in { d \in TimeWindowDTOs : d.start = 3 } } :
          AcceptCoverFromDTOs(1, 2, covers_window, needs_windows)

SpecTimeWindow == Init /\ [][NextTimeWindow]_vars

\* ----------------------------------------------------------- the chain walk
\* The chain walk of lines 119-155, one iteration of its while loop at a
\* time, on any offer: needs and commitments of any shape, cycles and
\* several commitments for one window included.
MaxWalkParticipants == 3
MaxWalkNeeds == 2
MaxWalkCommitments == 3

WalkWindows == { w \in Windows : w.start \in {0, SlotsPerDay} }

WalkNeeds ==
    { WindowNeed(owner, window, created_by_offer) :
        owner \in 1 .. MaxWalkParticipants, window \in WalkWindows,
        created_by_offer \in BOOLEAN }

WalkCommitments ==
    { RingSwapCommitment(from_participant, 1, window) :
        from_participant \in 1 .. MaxWalkParticipants, window \in WalkWindows }

\* The offers the walk is run on: active, with the let window [0, 1), and
\* with a commitment that overlaps the let window by date (line 114).
WalkOffers ==
    { offer \in
        { [SwapOffer(1, 1, ScheduleId, [start |-> 0, end |-> 1],
                     <<[start |-> 2 * SlotsPerDay, end |-> 2 * SlotsPerDay + 1]>>)
             EXCEPT !.outstanding_needs = needs, !.partial_commitments = commitments] :
            needs \in UNION { [1 .. n -> WalkNeeds] : n \in 0 .. MaxWalkNeeds },
            commitments \in UNION { [1 .. n -> WalkCommitments] :
                                       n \in 1 .. MaxWalkCommitments } } :
        let_commitments(offer) # <<>> }

\* Lines 117-123: the walk's variables before the loop. expanded and added
\* record, in order, the commitments expanded (lines 127-143 run for them)
\* and the participants added by line 142.
WalkStart(offer) ==
    [pc |-> "walk",
     commitments_to_check |-> <<Head(let_commitments(offer))>>,
     checked_commitments |-> {},
     participants_to_clean |->
         {offer.partial_commitments[Head(let_commitments(offer))].from_participant},
     expanded |-> <<>>,
     added |-> <<>>]

InitChainWalk ==
    /\ storage \in { 1 :> offer : offer \in WalkOffers }
    /\ calls = 1 :> WalkStart(storage[1])
    /\ applied = <<>>
    /\ notifications = <<>>
    /\ last = Call("init", 0, Returned, {}, <<>>)

\* Lines 126-143: one iteration of the while loop.
WalkStep ==
    /\ calls[1].pc = "walk"
    /\ calls[1].commitments_to_check # <<>>
    /\ LET current_commit == Head(calls[1].commitments_to_check)
           rest == Tail(calls[1].commitments_to_check)
       IN  IF current_commit \in calls[1].checked_commitments
           THEN calls' = [calls EXCEPT ![1].commitments_to_check = rest]
           ELSE \E s \in {scan_chain(storage[1], current_commit, 0, rest,
                                     calls[1].participants_to_clean)} :
                   calls' = [calls EXCEPT
                      ![1].commitments_to_check = s.commitments_to_check,
                      ![1].checked_commitments = @ \cup {current_commit},
                      ![1].participants_to_clean = s.participants_to_clean,
                      ![1].expanded = Append(@, current_commit),
                      ![1].added = @ \o
                          [i \in 1 .. (Len(s.commitments_to_check) - Len(rest)) |->
                              storage[1].partial_commitments[
                                  s.commitments_to_check[Len(rest) + i]].from_participant]]
    /\ UNCHANGED <<storage, applied, notifications, last>>

\* Lines 125 and 145-155: the loop ends when nothing is left to check; the
\* needs and commitments of the participants found are removed.
WalkEnd ==
    /\ calls[1].pc = "walk"
    /\ calls[1].commitments_to_check = <<>>
    /\ calls' = [calls EXCEPT ![1].pc = "done"]
    /\ storage' = [storage EXCEPT ![1] =
          [@ EXCEPT
             !.outstanding_needs =
                 SelectSeq(@, LAMBDA n : ~(n.owner \in calls[1].participants_to_clean
                                           /\ ~n.created_by_offer)),
             !.partial_commitments =
                 SelectSeq(@, LAMBDA c :
                     c.from_participant \notin calls[1].participants_to_clean)]]
    /\ UNCHANGED <<applied, notifications, last>>

NextChainWalk == WalkStep \/ WalkEnd

\* The loop runs in one thread without waiting: it keeps taking steps.
SpecChainWalk == InitChainWalk /\ [][NextChainWalk]_vars /\ WF_vars(NextChainWalk)

\* ------------------------------------------------- needs and commitments
\* find_need, resolve_need and add_commitment called on the aggregate, on
\* offers whose needs have windows of several lengths: equal ones, ones that
\* overlap, and ones that share a date only.
MaxNeeds == 3
MaxNeedOwners == 2

NeedWindows ==
    { w \in TimeWindows : to_tuple(w) \in {<<0, 1>>, <<0, 2>>, <<1, 2>>, <<2, 3>>} }

Needs ==
    { WindowNeed(owner, window, FALSE) :
        owner \in 1 .. MaxNeedOwners, window \in NeedWindows }

NeedOffers ==
    { [SwapOffer(1, 1, ScheduleId, [start |-> 0, end |-> 1],
                 <<[start |-> 2 * SlotsPerDay, end |-> 2 * SlotsPerDay + 1]>>)
          EXCEPT !.outstanding_needs = needs] :
        needs \in UNION { [1 .. n -> Needs] : n \in 0 .. MaxNeeds } }

InitNeeds ==
    /\ storage \in { 1 :> offer : offer \in NeedOffers }
    /\ applied = <<>>
    /\ notifications = <<>>
    /\ last = Call("init", 0, Returned, {}, <<>>)
    /\ calls = <<>>

\* offer.resolve_need(window): the stored offer is the object changed; the
\* need find_need found is returned (None: the empty sequence).
ResolveNeed(id, window) ==
    /\ id \in DOMAIN storage
    /\ storage' = [storage EXCEPT ![id] = resolve_need(@, window)]
    /\ last' = Call("resolve_need", id, Returned, {[window |-> window]},
                    IF find_need(storage[id], window) # <<>>
                    THEN <<Head(find_need(storage[id], window))>>
                    ELSE <<>>)
    /\ UNCHANGED <<applied, notifications, calls>>

\* offer.add_commitment(coverer, need)
AddCommitment(id, coverer, need) ==
    /\ id \in DOMAIN storage
    /\ Len(storage[id].partial_commitments) < MaxCommitments
    /\ storage' = [storage EXCEPT ![id] = add_commitment(@, coverer, need)]
    /\ last' = Call("add_commitment", id, Returned,
                    {[coverer |-> coverer, need |-> need]},
                    <<RingSwapCommitment(coverer, need.owner, need.window)>>)
    /\ UNCHANGED <<applied, notifications, calls>>

NextNeeds ==
    \/ \E window \in NeedWindows : ResolveNeed(1, window)
    \/ \E need \in { n \in Needs : n.owner = 1 } : AddCommitment(1, NumParticipants, need)

SpecNeeds == InitNeeds /\ [][NextNeeds]_vars

\* ------------------------------------------------- create with time zones
\* The wall-clock readings 0 .. MaxWallClock and the UTC offsets
\* -MaxUtcOffset .. MaxUtcOffset of the datetimes given to create.
MaxWallClock == 2
MaxUtcOffset == 1

\* datetime.tzinfo: None for a naive value, else the zone <<offset>> at a
\* fixed offset from UTC.
NaiveTz == <<>>
UtcOffsets == (0 - MaxUtcOffset) .. MaxUtcOffset
Timezones == { <<offset>> : offset \in UtcOffsets }

\* timezone.utc
UTC == <<0>>

\* tzinfo.utcoffset
utcoffset(tzinfo) == tzinfo[1]

\* datetime
Datetime(wall, tzinfo) == [wall |-> wall, tzinfo |-> tzinfo]

Datetimes ==
    { Datetime(wall, tzinfo) : wall \in 0 .. MaxWallClock, tzinfo \in Timezones \cup {NaiveTz} }

\* datetime.replace(tzinfo=...): the reading is kept, the zone is set.
replace_tzinfo(dt, tzinfo) == [dt EXCEPT !.tzinfo = tzinfo]

\* datetime.astimezone of an aware value: the same instant read in tzinfo.
astimezone(dt, tzinfo) ==
    Datetime(dt.wall - utcoffset(dt.tzinfo) + utcoffset(tzinfo), tzinfo)

\* a < b on aware datetimes: their instants are compared.
datetime_lt(a, b) ==
    (a.wall - utcoffset(a.tzinfo)) < (b.wall - utcoffset(b.tzinfo))

\* _normalize_timezone setting the zone of every value with replace, the
\* aware ones too (line 18 taken for both branches).
Instant_by_replace(at) == replace_tzinfo(at, UTC)

\* Instant._normalize_timezone and to_datetime
Instant(at) ==
    IF at.tzinfo = NaiveTz THEN replace_tzinfo(at, UTC) ELSE astimezone(at, UTC)

\* The one-slot TimeWindow starting at a datetime.
TimeWindowFrom(start) ==
    [start |-> start, end |-> Datetime(start.wall + 1, start.tzinfo)]

\* _ensure_future raising when the window starts at the instant, too.
ensure_future_datetime_after(window, instant) ==
    LET window_start == IF window.start.tzinfo # NaiveTz THEN window.start
                        ELSE replace_tzinfo(window.start, UTC)
        comparison == astimezone(window_start, UTC)
    IN  ~(datetime_lt(comparison, instant) \/ comparison = instant)

\* SwapOffer._ensure_future on datetimes: TRUE when it does not raise.
ensure_future_datetime(window, instant) ==
    LET window_start == IF window.start.tzinfo # NaiveTz THEN window.start
                        ELSE replace_tzinfo(window.start, UTC)
        comparison == astimezone(window_start, UTC)
    IN  ~datetime_lt(comparison, instant)

\* SwapOffer.create on datetimes: TRUE when no TimeWindowInPastError is raised.
create_ok_datetime(let_window, search_windows, now) ==
    LET instant == now
    IN  /\ ensure_future_datetime(let_window, instant)
        /\ \A i \in 1 .. Len(search_windows) : ensure_future_datetime(search_windows[i], instant)

\* SwapNegotiationService.create_offer with windows given as datetimes and
\* now = Instant(at); the call's arguments are kept however it ends.
CreateOfferAt(id, requester, let_window, search_windows, at) ==
    /\ id \notin DOMAIN storage
    /\ IF create_ok_datetime(let_window, search_windows, Instant(at))
       THEN LET offer == SwapOffer(id, requester, ScheduleId, let_window, search_windows)
            IN  /\ storage' = (id :> offer) @@ storage
                /\ notifications' = Append(notifications, announce_offer(offer))
                /\ last' = Call("create_offer", id, Returned,
                                {[requester |-> requester, let_window |-> let_window,
                                  search_windows |-> search_windows, at |-> at]}, <<>>)
       ELSE /\ UNCHANGED <<storage, notifications>>
            /\ last' = Call("create_offer", id, TimeWindowInPastError,
                            {[requester |-> requester, let_window |-> let_window,
                              search_windows |-> search_windows, at |-> at]}, <<>>)
    /\ UNCHANGED <<applied, calls>>

\* The lists of search windows given as datetimes.
SearchListsAt ==
    UNION { [1 .. n -> { TimeWindowFrom(d) : d \in Datetimes }] : n \in 1 .. MaxSearch }

NextAt ==
    \E id \in OfferIds \ DOMAIN storage :
        \E let_start \in Datetimes, search_windows \in SearchListsAt, at \in Datetimes :
            CreateOfferAt(id, 1, TimeWindowFrom(let_start), search_windows, at)

SpecAt == Init /\ [][NextAt]_vars

\* ------------------------------------------------------------------ Instant
\* Instant(at=...) and to_datetime called directly, on datetimes whose
\* reading is an hour of one day, naive or in any of the time zones.
MaxHour == 23

InstantInputs ==
    { Datetime(wall, tzinfo) : wall \in 0 .. MaxHour, tzinfo \in Timezones \cup {NaiveTz} }

\* Instant(at=at)
NewInstant(at) ==
    /\ last' = Call("Instant", 0, Returned, {[at |-> at]}, <<Instant(at)>>)
    /\ UNCHANGED <<storage, applied, notifications, calls>>

\* Instant(at=instant.to_datetime()) on the Instant just constructed.
NewInstantFromInstant ==
    /\ last.op = "Instant"
    /\ last' = Call("Instant", 0, Returned, {[at |-> last.returned[1]]},
                    <<Instant(last.returned[1])>>)
    /\ UNCHANGED <<storage, applied, notifications, calls>>

\* instant.to_datetime() on the Instant just constructed.
ToDatetime ==
    /\ last.op = "Instant"
    /\ last' = Call("to_datetime", 0, Returned, {[value |-> last.returned[1]]},
                    last.returned)
    /\ UNCHANGED <<storage, applied, notifications, calls>>

NextInstant ==
    \/ \E at \in InstantInputs : NewInstant(at)
    \/ NewInstantFromInstant
    \/ ToDatetime

SpecInstant == Init /\ [][NextInstant]_vars

\* ------------------------------------------------------------ verification
\* The override the port receives for (participant, window).
Override(participant, window) ==
    [schedule_id |-> ScheduleId, participant |-> participant, window |-> window]

\* The notifications of one kind received so far.
Notified(kind) == SelectSeq(notifications, LAMBDA m : m.kind = kind)

\* An offer no acceptance has changed yet.
Fresh(offer) ==
    offer = SwapOffer(offer.id, offer.requester, offer.schedule_id,
                      offer.let_window, offer.search_windows)

\* The windows of a list, as a set.
Range(list) == { list[i] : i \in 1 .. Len(list) }

\* C1: in every reachable Active state of an offer (whatever ring
\* contributions it has accumulated), accept_cover by any participant with
\* covers_window = the let window and one needs-window that is a search window
\* returns the DirectSwap (participant covers the let window in exchange for
\* the needs-window), leaves outstanding_needs and partial_commitments empty,
\* sets the status to fulfilled and applies exactly the two overrides
\* (participant, let window) and (requester, needs-window).
C1_DirectSwapPreemptsRing ==
    \A id \in DOMAIN storage :
        is_active(storage[id]) =>
            \A participant \in Participants, needs_window \in Range(storage[id].search_windows) :
                \E r \in {accept_cover(storage[id], participant,
                                       storage[id].let_window, <<needs_window>>)} :
                    /\ r.result = Returned
                    /\ r.returned = <<DirectSwap(participant, storage[id].let_window, needs_window)>>
                    /\ r.offer.outstanding_needs = <<>>
                    /\ r.offer.partial_commitments = <<>>
                    /\ r.offer.status = FULFILLED
                    /\ r.overrides = <<Override(participant, storage[id].let_window),
                                       Override(storage[id].requester, needs_window)>>
                    /\ applied = <<>>

\* C1 witness: a direct swap of the let window has pre-empted a ring that held
\* two partial commitments; the offer is fulfilled with two overrides applied.
C1_Witness ==
    /\ last.op = "accept_cover"
    /\ last.returned # <<>>
    /\ \E call \in last.args :
          /\ call.covers_window = storage[call.offer_id].let_window
          /\ call.needs_windows = <<storage[call.offer_id].search_windows[1]>>
          /\ call.needs_windows[1] # call.covers_window
          /\ call.participant # storage[call.offer_id].requester
          /\ storage[call.offer_id].status = FULFILLED
          /\ storage[call.offer_id].partial_commitments = <<>>
          /\ applied = <<Override(call.participant, call.covers_window),
                         Override(storage[call.offer_id].requester, call.needs_windows[1])>>
    /\ Len(Notified("notify_ring_update")) = 2

\* C2: on a freshly created offer with let window W0, accept_cover by any
\* participant P covering W0 in exchange for a search window W1 returns a
\* DirectSwap, the status becomes fulfilled, and the overrides applied are
\* exactly (P, W0) and (requester, W1).
C2_SimpleDirectSwap ==
    /\ [](\A id \in DOMAIN storage :
            Fresh(storage[id]) =>
                \A participant \in Participants, needs_window \in Range(storage[id].search_windows) :
                    accept_cover(storage[id], participant, storage[id].let_window,
                                 <<needs_window>>).result = Returned)
    /\ [][ \A call \in last'.args :
            ( /\ last.op = "create_offer"
                /\ last.result = Returned
                /\ last'.op = "accept_cover"
                /\ call.covers_window = storage[call.offer_id].let_window
                /\ Len(call.needs_windows) = 1
                /\ call.needs_windows[1] \in Range(storage[call.offer_id].search_windows) )
              => ( /\ last'.returned = <<DirectSwap(call.participant, call.covers_window,
                                                    call.needs_windows[1])>>
                   /\ storage'[call.offer_id].status = FULFILLED
                   /\ applied' = <<Override(call.participant, call.covers_window),
                                   Override(storage[call.offer_id].requester,
                                            call.needs_windows[1])>> ) ]_vars

\* C2 witness: the first call on a fresh offer was such a direct swap.
C2_Witness ==
    /\ last.op = "accept_cover"
    /\ last.returned # <<>>
    /\ Len(notifications) = 2
    /\ \E call \in last.args :
          /\ call.covers_window = storage[call.offer_id].let_window
          /\ call.needs_windows = <<storage[call.offer_id].search_windows[1]>>
          /\ call.needs_windows[1] # call.covers_window
          /\ call.participant # storage[call.offer_id].requester
          /\ storage[call.offer_id].status = FULFILLED
    /\ Len(applied) = 2

\* The three-party scenario of C3 on a fresh offer: A (not the requester)
\* accepts covering the let window W0 needing W2, then B (neither A nor the
\* requester) accepts covering W2 needing the search window W1.
ThreePartyRing(offer, a, b, w1, w2) ==
    \E r1 \in {accept_cover(offer, a, offer.let_window, <<w2>>)} :
        /\ r1.result = Returned
        /\ r1.offer.status = ACTIVE
        /\ Len(r1.offer.partial_commitments) = 1
        /\ r1.overrides = <<>>
        /\ applied = <<>>
        /\ \E r2 \in {accept_cover(r1.offer, b, w2, <<w1>>)} :
              /\ r2.result = Returned
              /\ r2.offer.status = FULFILLED
              /\ Range(r2.overrides) = {Override(a, offer.let_window), Override(b, w2),
                                        Override(offer.requester, w1)}

\* C3 as claimed: on an offer whose let window is no search window, the
\* scenario holds for every W2 that is neither a search window nor the let
\* window.
C3_AsClaimed ==
    \A id \in DOMAIN storage :
        (Fresh(storage[id]) /\ storage[id].let_window \notin Range(storage[id].search_windows)) =>
            \A a \in Participants \ {storage[id].requester} :
            \A b \in Participants \ {storage[id].requester, a} :
            \A w1 \in Range(storage[id].search_windows) :
            \A w2 \in Windows \ (Range(storage[id].search_windows) \cup {storage[id].let_window}) :
                ThreePartyRing(storage[id], a, b, w1, w2)

\* C3, amended: the three-party scenario (one partial commitment and no
\* override after A, the offer fulfilled with exactly the overrides (A, W0),
\* (B, W2), (requester, W1) after B) holds for every W2 that starts on the
\* date of no search window's start and does not overlap the let window by
\* date.
C3_ThreePartyRing ==
    \A id \in DOMAIN storage :
        Fresh(storage[id]) =>
            \A a \in Participants \ {storage[id].requester} :
            \A b \in Participants \ {storage[id].requester, a} :
            \A w1 \in Range(storage[id].search_windows) :
            \A w2 \in Windows :
                ( /\ \A w \in Range(storage[id].search_windows) :
                        date(w2.start) # date(w.start)
                  /\ ~date_overlap(w2, storage[id].let_window) )
                => ThreePartyRing(storage[id], a, b, w1, w2)

\* C3 witness: B's acceptance has closed the three-party ring; three
\* overrides for three participants are applied.
C3_Witness ==
    /\ last.op = "accept_cover"
    /\ last.returned = <<>>
    /\ Len(notifications) = 3
    /\ notifications[2].kind = "notify_ring_update"
    /\ \E call \in last.args :
          /\ storage[call.offer_id].status = FULFILLED
          /\ Len(storage[call.offer_id].partial_commitments) = 1
          /\ call.needs_windows = <<storage[call.offer_id].search_windows[1]>>
          /\ Range(applied) =
                {Override(storage[call.offer_id].partial_commitments[1].from_participant,
                          storage[call.offer_id].let_window),
                 Override(call.participant, call.covers_window),
                 Override(storage[call.offer_id].requester, call.needs_windows[1])}
          /\ Cardinality({call.participant, storage[call.offer_id].requester,
                          storage[call.offer_id].partial_commitments[1].from_participant}) = 3
    /\ Len(applied) = 3

\* An acceptance that closes a ring: on an Active offer whose let window is
\* none of its search windows, a participant other than the requester covers
\* an outstanding derived need, which shares no date with the let window, in
\* exchange for exactly one window, a search window.
ClosesRing(offer, call) ==
    /\ is_active(offer)
    /\ offer.let_window \notin Range(offer.search_windows)
    /\ call.participant # offer.requester
    /\ Len(call.needs_windows) = 1
    /\ call.needs_windows[1] \in Range(offer.search_windows)
    /\ ~date_overlap(call.covers_window, offer.let_window)
    /\ \E i \in 1 .. Len(offer.outstanding_needs) :
          /\ offer.outstanding_needs[i].window = call.covers_window
          /\ ~offer.outstanding_needs[i].created_by_offer

\* The partial commitments of the offer form a chain from the let window:
\* each is made by a different participant, none by the requester, each for a
\* different window.
CleanChain(offer) ==
    /\ offer.partial_commitments # <<>>
    /\ offer.partial_commitments[1].window = offer.let_window
    /\ \A i \in 1 .. Len(offer.partial_commitments) :
          /\ offer.partial_commitments[i].from_participant # offer.requester
          /\ \A j \in 1 .. Len(offer.partial_commitments) :
                i # j => /\ offer.partial_commitments[i].from_participant
                              # offer.partial_commitments[j].from_participant
                         /\ offer.partial_commitments[i].window
                              # offer.partial_commitments[j].window

\* C4: when an acceptance by a new participant closes a ring whose chain
\* holds k >= 2 partial commitments, an override giving each commitment's
\* window to its covering participant is applied.
C4_OverridePerCommitment ==
    [][ \A call \in last'.args :
            ( /\ last'.op = "accept_cover"
              /\ ClosesRing(storage[call.offer_id], call)
              /\ CleanChain(storage[call.offer_id])
              /\ \A i \in 1 .. Len(storage[call.offer_id].partial_commitments) :
                    storage[call.offer_id].partial_commitments[i].from_participant
                        # call.participant
              /\ Len(storage[call.offer_id].partial_commitments) >= 2
              /\ storage'[call.offer_id].status = FULFILLED )
            => \A i \in 1 .. Len(storage[call.offer_id].partial_commitments) :
                  Override(storage[call.offer_id].partial_commitments[i].from_participant,
                           storage[call.offer_id].partial_commitments[i].window)
                      \in Range(applied') ]_vars

\* C5: an acceptance that closes a ring whose partial commitments were made
\* by participants other than the requester fulfils the offer only if the chain
\* (the partial commitments, the responder's and the requester's) has at
\* least 3 commitments by at least 3 distinct covering participants;
\* otherwise the offer stays Active.
C5_RingNeedsThreeParticipants ==
    [][ \A call \in last'.args :
            ( /\ last'.op = "accept_cover"
              /\ ClosesRing(storage[call.offer_id], call)
              /\ \A i \in 1 .. Len(storage[call.offer_id].partial_commitments) :
                    storage[call.offer_id].partial_commitments[i].from_participant
                        # storage[call.offer_id].requester
              /\ storage'[call.offer_id].status = FULFILLED )
            => ( /\ Len(storage[call.offer_id].partial_commitments) + 2 >= 3
                 /\ Cardinality(
                        { storage[call.offer_id].partial_commitments[i].from_participant :
                            i \in 1 .. Len(storage[call.offer_id].partial_commitments) }
                        \cup {call.participant, storage[call.offer_id].requester}) >= 3 ) ]_vars

\* accept_cover treats the response as a direct swap: it records and returns
\* a DirectSwap for the let window.
TreatedAsDirectSwap(r) ==
    /\ r.result = Returned
    /\ r.returned # <<>>
    /\ r.offer.direct_agreements # <<>>

\* C6 as claimed: a response is treated as a direct swap exactly when
\* covers-window equals the let window, one needs-window is supplied and it
\* equals a search window.
C6_AsClaimed ==
    \A id \in DOMAIN storage :
        is_active(storage[id]) =>
            \A participant \in Participants, covers_window \in Windows,
               needs_windows \in NeedsLists :
                TreatedAsDirectSwap(accept_cover(storage[id], participant,
                                                 covers_window, needs_windows))
                <=> ( /\ covers_window = storage[id].let_window
                      /\ Len(needs_windows) = 1
                      /\ needs_windows[1] \in Range(storage[id].search_windows) )

\* C6, amended: on an Active offer a response is treated as a direct swap
\* exactly when at least one needs-window is supplied, the first one starts
\* on the date some search window starts on, and covers-window overlaps the
\* let window by date; further needs-windows are not read.
C6_DirectSwapByDate ==
    \A id \in DOMAIN storage :
        is_active(storage[id]) =>
            \A participant \in Participants, covers_window \in Windows,
               needs_windows \in NeedsLists :
                TreatedAsDirectSwap(accept_cover(storage[id], participant,
                                                 covers_window, needs_windows))
                <=> ( /\ Len(needs_windows) >= 1
                      /\ \E w \in Range(storage[id].search_windows) :
                            needs_windows[1].start \div SlotsPerDay = w.start \div SlotsPerDay
                      /\ covers_window.start \div SlotsPerDay
                            <= storage[id].let_window.end \div SlotsPerDay
                      /\ storage[id].let_window.start \div SlotsPerDay
                            <= covers_window.end \div SlotsPerDay )

\* C6 witness: a direct swap was recorded for a covers-window that is not the
\* let window and a needs-window that is no search window.
C6_Witness ==
    /\ last.op = "accept_cover"
    /\ last.returned # <<>>
    /\ \E call \in last.args :
          /\ call.covers_window # storage[call.offer_id].let_window
          /\ call.needs_windows[1] \notin Range(storage[call.offer_id].search_windows)
          /\ storage[call.offer_id].status = FULFILLED
          /\ Len(storage[call.offer_id].direct_agreements) = 1

\* C7: a mutating operation on an offer that is fulfilled or cancelled fails
\* with OfferNotActive and changes neither the offer nor the overrides nor
\* the notifications.
C7_NonActiveRejectsMutation ==
    [][ \A id \in DOMAIN storage :
            ( /\ ~is_active(storage[id])
              /\ last'.offer_id = id
              /\ last'.op \in {"accept_cover", "cancel"} )
            => ( /\ last'.result = OfferNotActiveError
                 /\ storage'[id] = storage[id]
                 /\ applied' = applied
                 /\ notifications' = notifications ) ]_vars

\* C8: the status of an offer changes only from Active, to Fulfilled or to
\* Cancelled.
C8_TerminalStatuses ==
    [][ \A id \in DOMAIN storage :
            storage'[id].status # storage[id].status
            => ( /\ storage[id].status = ACTIVE
                 /\ storage'[id].status \in {FULFILLED, CANCELLED} ) ]_vars

\* C9: a fulfilled offer has no outstanding need and no partial commitment.
C9_FulfilledIsCleared ==
    \A id \in DOMAIN storage :
        storage[id].status = FULFILLED
        => ( /\ storage[id].outstanding_needs = <<>>
             /\ storage[id].partial_commitments = <<>> )

\* The outstanding needs the offer was created with.
OfferNeeds(offer) == SelectSeq(offer.outstanding_needs, LAMBDA n : n.created_by_offer)

\* C10 as claimed: an Active offer has exactly one need created by the
\* offer, the requester's for the let window.
C10_AsClaimed ==
    \A id \in DOMAIN storage :
        is_active(storage[id]) =>
            OfferNeeds(storage[id]) =
                <<WindowNeed(storage[id].requester, storage[id].let_window, TRUE)>>

\* C10, amended: an Active offer without partial commitments has exactly one
\* need created by the offer, the requester's for the let window, and it is
\* its only outstanding need; an Active offer with a partial commitment has
\* none, the first ring contribution having removed it.
C10_OfferNeedUntilFirstCommitment ==
    \A id \in DOMAIN storage :
        is_active(storage[id]) =>
            IF storage[id].partial_commitments = <<>>
            THEN storage[id].outstanding_needs =
                    <<WindowNeed(storage[id].requester, storage[id].let_window, TRUE)>>
            ELSE OfferNeeds(storage[id]) = <<>>

\* C10 witness: a ring contribution covering the let window was accepted;
\* the offer is Active and the need it was created with is gone.
C10_Witness ==
    /\ last.op = "accept_cover"
    /\ \E call \in last.args :
          /\ call.covers_window = storage[call.offer_id].let_window
          /\ call.participant # storage[call.offer_id].requester
          /\ is_active(storage[call.offer_id])
          /\ Len(storage[call.offer_id].partial_commitments) = 1
          /\ storage[call.offer_id].outstanding_needs =
                <<WindowNeed(call.participant, call.needs_windows[1], FALSE)>>

\* C11: when the override port fails during an accept_cover on an Active
\* offer, the stored offer is still Active.
C11_OverrideFailureKeepsActive ==
    [][ \A id \in DOMAIN storage :
            ( /\ is_active(storage[id])
              /\ last'.op = "accept_cover"
              /\ last'.offer_id = id
              /\ last'.result = ConnectionError )
            => is_active(storage'[id]) ]_vars

\* The calls that have fulfilled the offer and applied overrides.
FulfillingCalls ==
    { t \in DOMAIN calls : calls[t].pc = "done" /\ calls[t].result = Returned
                           /\ calls[t].overrides # <<>> }

\* C12: of the accept_cover calls that overlap on one offer, at most one
\* fulfils the offer and applies overrides.
C12_AtMostOneCallFulfils ==
    Cardinality(FulfillingCalls) <= 1

\* The call fails with NoMatchingNeed and leaves the offer, the overrides and
\* the notifications as they were.
FailsWithNoMatchingNeed(offer, r) ==
    /\ r.result = NoMatchingNeed
    /\ r.offer = offer
    /\ r.overrides = <<>>
    /\ r.notified = <<>>

\* No outstanding need of the offer has exactly this window.
NoNeedFor(offer, window) ==
    \A i \in 1 .. Len(offer.outstanding_needs) : offer.outstanding_needs[i].window # window

\* Some partial commitment of the offer overlaps the let window by date.
HasLetCommitment(offer) ==
    \E i \in 1 .. Len(offer.partial_commitments) :
        date_overlap(offer.partial_commitments[i].window, offer.let_window)

\* C13 as claimed, a direct swap of the let window being one whose
\* covers-window equals the let window and whose single needs-window equals a
\* search window: any other acceptance that matches no outstanding need and
\* is no additional commitment fails with NoMatchingNeed and changes nothing.
C13_AsClaimed ==
    \A id \in DOMAIN storage :
        (is_active(storage[id]) /\ storage[id].let_window \notin Range(storage[id].search_windows)) =>
            \A participant \in Participants, covers_window \in Windows,
               needs_windows \in NeedsLists \ {<<>>} :
                ( /\ NoNeedFor(storage[id], covers_window)
                  /\ ~( /\ covers_window = storage[id].let_window
                        /\ Len(needs_windows) = 1
                        /\ needs_windows[1] \in Range(storage[id].search_windows) )
                  /\ ~( /\ needs_windows[1] \notin Range(storage[id].search_windows)
                        /\ date_overlap(covers_window, storage[id].let_window)
                        /\ HasLetCommitment(storage[id]) ) )
                => FailsWithNoMatchingNeed(storage[id],
                        accept_cover(storage[id], participant, covers_window, needs_windows))

\* C13, amended: on an Active offer an acceptance with a needs-window whose
\* covers-window equals no outstanding need's exact interval fails with
\* NoMatchingNeed and changes nothing, unless covers-window overlaps the let
\* window by date and either the first needs-window starts on a search
\* window's start date (a direct swap of the let window) or a commitment
\* overlapping the let window exists (an additional commitment).
C13_NoMatchingNeedChangesNothing ==
    \A id \in DOMAIN storage :
        is_active(storage[id]) =>
            \A participant \in Participants, covers_window \in Windows,
               needs_windows \in NeedsLists \ {<<>>} :
                ( /\ NoNeedFor(storage[id], covers_window)
                  /\ ~( /\ date_overlap(covers_window, storage[id].let_window)
                        /\ \/ \E w \in Range(storage[id].search_windows) :
                                 date(needs_windows[1].start) = date(w.start)
                           \/ HasLetCommitment(storage[id]) ) )
                => FailsWithNoMatchingNeed(storage[id],
                        accept_cover(storage[id], participant, covers_window, needs_windows))

\* C13 witness: an acceptance on an offer with a pending ring has failed with
\* NoMatchingNeed; the offer is Active and nothing was applied.
C13_Witness ==
    /\ last.op = "accept_cover"
    /\ last.result = NoMatchingNeed
    /\ last.offer_id \in DOMAIN storage
    /\ is_active(storage[last.offer_id])
    /\ storage[last.offer_id].partial_commitments # <<>>
    /\ applied = <<>>

\* C14: accept_cover tests its preconditions in the order offer exists,
\* offer is active, a needs-window is given. A call naming an unknown id ends
\* with OfferNotFound; a call on an offer that is not active ends with
\* OfferNotActive, with an empty needs-window list too; a call with an empty
\* needs-window list on an Active offer ends with MissingNeedWindow; none of
\* them changes a stored offer, an override or a notification.
C14_PreconditionOrder ==
    /\ [](\A id \in DOMAIN storage :
            \A participant \in Participants, covers_window \in Windows :
                \E r \in {accept_cover(storage[id], participant, covers_window, <<>>)} :
                    /\ r.result = IF storage[id].status = ACTIVE
                                  THEN MissingNeedWindow ELSE OfferNotActiveError
                    /\ r.offer = storage[id]
                    /\ r.overrides = <<>>
                    /\ r.notified = <<>>)
    /\ [][ last'.op = "accept_cover" =>
             /\ last'.offer_id \notin DOMAIN storage
                => ( /\ last'.result = OfferNotFoundError
                     /\ UNCHANGED <<storage, applied, notifications>> )
             /\ (last'.offer_id \in DOMAIN storage /\ ~is_active(storage[last'.offer_id]))
                => ( /\ last'.result = OfferNotActiveError
                     /\ UNCHANGED <<storage, applied, notifications>> ) ]_vars

\* C14 witness: with an offer stored and fulfilled, a call naming an unknown
\* id has ended with OfferNotFound.
C14_Witness ==
    /\ last.op = "accept_cover"
    /\ last.result = OfferNotFoundError
    /\ last.offer_id \notin DOMAIN storage
    /\ \E id \in DOMAIN storage : storage[id].status = FULFILLED

\* The effect C15 describes of participant covering the outstanding need
\* with covers_window in exchange for needs_window, on the outcome r.
RingContributionEffect(offer, participant, covers_window, needs_window, r) ==
    LET covered == CHOOSE i \in 1 .. Len(offer.outstanding_needs) :
                       /\ offer.outstanding_needs[i].window = covers_window
                       /\ \A j \in 1 .. (i - 1) :
                              offer.outstanding_needs[j].window # covers_window
        need == offer.outstanding_needs[covered]
        remaining == SelectSeq(offer.outstanding_needs, LAMBDA n : n.window # covers_window)
    IN  /\ r.result = Returned
        /\ r.returned = <<>>
        /\ r.offer.partial_commitments =
              Append(offer.partial_commitments,
                     RingSwapCommitment(participant, need.owner, need.window))
        /\ Len(remaining) = Len(offer.outstanding_needs) - 1
        /\ r.offer.outstanding_needs =
              IF \E i \in 1 .. Len(remaining) :
                     date(remaining[i].window.start) = date(needs_window.start)
              THEN remaining
              ELSE Append(remaining, WindowNeed(participant, needs_window, FALSE))
        /\ r.offer.status = ACTIVE
        /\ r.overrides = <<>>
        /\ r.offer.direct_agreements = offer.direct_agreements
        /\ r.offer.ring_swaps = offer.ring_swaps

\* C15 as claimed: whenever the needs-window is not one of the search
\* windows and covers_window equals an outstanding need, the acceptance has
\* the ring contribution's effect.
C15_AsClaimed ==
    \A id \in DOMAIN storage :
        (is_active(storage[id]) /\ storage[id].let_window \notin Range(storage[id].search_windows)) =>
            \A participant \in Participants, covers_window \in Windows,
               needs_windows \in NeedsLists \ {<<>>} :
                ( /\ needs_windows[1] \notin Range(storage[id].search_windows)
                  /\ ~NoNeedFor(storage[id], covers_window) )
                => RingContributionEffect(storage[id], participant, covers_window,
                        needs_windows[1],
                        accept_cover(storage[id], participant, covers_window, needs_windows))

\* C15, amended: on an Active offer an acceptance whose first needs-window
\* starts on no search window's start date and whose covers_window equals an
\* outstanding need's window appends the one commitment (responder -> the
\* need's owner, the need's window), removes the covered need, appends the
\* need (responder, needs-window, not created by the offer) unless a
\* remaining need starts on the needs-window's start date, leaves the status
\* Active, applies no override and records no DirectSwap or RingSwap.
C15_RingContributionEffect ==
    \A id \in DOMAIN storage :
        is_active(storage[id]) =>
            \A participant \in Participants, covers_window \in Windows,
               needs_windows \in NeedsLists \ {<<>>} :
                ( /\ \A w \in Range(storage[id].search_windows) :
                         date(needs_windows[1].start) # date(w.start)
                  /\ ~NoNeedFor(storage[id], covers_window) )
                => RingContributionEffect(storage[id], participant, covers_window,
                        needs_windows[1],
                        accept_cover(storage[id], participant, covers_window, needs_windows))

\* C15 witness: a second ring contribution was accepted, covering the need
\* the first contributor brought; two commitments are held, the last one from
\* the responder to the first contributor, and the responder's need is the
\* one outstanding.
C15_Witness ==
    /\ last.op = "accept_cover"
    /\ \E call \in last.args :
          /\ call.covers_window # storage[call.offer_id].let_window
          /\ is_active(storage[call.offer_id])
          /\ Len(storage[call.offer_id].partial_commitments) = 2
          /\ storage[call.offer_id].partial_commitments[2] =
                RingSwapCommitment(call.participant,
                    storage[call.offer_id].partial_commitments[1].from_participant,
                    call.covers_window)
          /\ call.participant # storage[call.offer_id].partial_commitments[1].from_participant
          /\ storage[call.offer_id].outstanding_needs =
                <<WindowNeed(call.participant, call.needs_windows[1], FALSE)>>
          /\ applied = <<>>

LetWindowCommitters(offer) ==
    LET held == SelectSeq(offer.partial_commitments,
                          LAMBDA c : c.window = offer.let_window)
    IN  [i \in 1 .. Len(held) |-> held[i].from_participant]

\* C17: when an acceptance by someone other than the requester, covering a
\* window other than the let window, closes the ring of an offer (whose let
\* window is no search window) for whose let window several participants,
\* none of them the requester, hold commitments, the overrides it applies
\* hold exactly one override of the let window, and it is for the
\* earliest-accepted of those committers who is not the closing responder.
C17_OneCommitterGetsLetWindow ==
    [][ \A call \in last'.args :
            ( /\ last'.op = "accept_cover"
              /\ is_active(storage[call.offer_id])
              /\ storage'[call.offer_id].status = FULFILLED
              /\ last'.returned = <<>>
              /\ storage[call.offer_id].let_window
                    \notin Range(storage[call.offer_id].search_windows)
              /\ call.participant # storage[call.offer_id].requester
              /\ call.covers_window # storage[call.offer_id].let_window
              /\ storage[call.offer_id].requester
                    \notin Range(LetWindowCommitters(storage[call.offer_id]))
              /\ Cardinality(Range(LetWindowCommitters(storage[call.offer_id]))) >= 2 )
            => \E new \in {SubSeq(applied', Len(applied) + 1, Len(applied'))} :
               \E others \in {SelectSeq(LetWindowCommitters(storage[call.offer_id]),
                                        LAMBDA c : c # call.participant)} :
                   /\ Cardinality({ i \in 1 .. Len(new) :
                          new[i].window = storage[call.offer_id].let_window }) = 1
                   /\ \E i \in 1 .. Len(new) :
                          new[i] = Override(others[1], storage[call.offer_id].let_window) ]_vars

\* C18: the offer a create_offer call has just stored is Active, has the one
\* outstanding need (requester, let window, created by the offer), has
\* available_windows equal to its search windows, and has no partial
\* commitment, no direct agreement and no ring swap.
C18_FreshOffer ==
    [][ (last'.op = "create_offer" /\ last'.result = Returned) =>
            \A call \in last'.args :
                /\ last'.offer_id \notin DOMAIN storage
                /\ last'.offer_id \in DOMAIN storage'
                /\ \E offer \in {storage'[last'.offer_id]} :
                      /\ offer.requester = call.requester
                      /\ offer.let_window = call.let_window
                      /\ offer.search_windows = call.search_windows
                      /\ offer.status = ACTIVE
                      /\ offer.outstanding_needs =
                            <<[owner |-> call.requester, window |-> call.let_window,
                               created_by_offer |-> TRUE]>>
                      /\ offer.available_windows = call.search_windows
                      /\ offer.partial_commitments = <<>>
                      /\ offer.direct_agreements = <<>>
                      /\ offer.ring_swaps = <<>> ]_vars

\* C18 witness: create_offer has just returned an offer whose search window
\* differs from its let window; nothing has been applied.
C18_Witness ==
    /\ last.op = "create_offer"
    /\ last.result = Returned
    /\ last.offer_id \in DOMAIN storage
    /\ applied = <<>>
    /\ Len(storage[last.offer_id].search_windows) = 1
    /\ storage[last.offer_id].search_windows[1] # storage[last.offer_id].let_window
    /\ Len(storage[last.offer_id].outstanding_needs) = 1

\* The instant of a datetime as slots since the epoch in UTC, a naive
\* reading being a UTC reading.
InUTC(dt) == IF dt.tzinfo = <<>> THEN dt.wall ELSE dt.wall - dt.tzinfo[1]

\* C19: create_offer ends with TimeWindowInPast exactly when the start of the
\* let window or of some search window, taken in UTC, is strictly earlier than
\* the injected now; otherwise it returns the offer.
C19_PastWindowsRejected ==
    [][ last'.op = "create_offer" =>
            \A call \in last'.args :
                /\ last'.result \in {TimeWindowInPastError, Returned}
                /\ (last'.result = TimeWindowInPastError)
                   <=> \/ InUTC(call.let_window.start) < InUTC(call.at)
                       \/ \E i \in 1 .. Len(call.search_windows) :
                             InUTC(call.search_windows[i].start) < InUTC(call.at) ]_vars

\* C19 witness: an offer was created whose let window, given naive, starts
\* exactly at now, given in the zone one slot east of UTC, and whose search
\* window starts later in the zone one slot west of UTC.
C19_Witness ==
    /\ last.op = "create_offer"
    /\ last.result = Returned
    /\ \E call \in last.args :
          /\ call.let_window.start.tzinfo = <<>>
          /\ call.at.tzinfo = <<1>>
          /\ InUTC(call.let_window.start) = InUTC(call.at)
          /\ call.search_windows[1].start.tzinfo = <<0 - 1>>
          /\ InUTC(call.search_windows[1].start) > InUTC(call.at)
          /\ last.offer_id \in DOMAIN storage

\* C20: a create_offer call that fails leaves the repository and the
\* notifications as they were; one that returns has added its offer to the
\* repository and emitted the one announcement of it.
C20_CreateOfferAllOrNothing ==
    [][ last'.op = "create_offer" =>
            IF last'.result = Returned
            THEN /\ last'.offer_id \in DOMAIN storage'
                 /\ notifications' =
                       Append(notifications,
                              [kind |-> "announce_offer", offer_id |-> last'.offer_id])
            ELSE UNCHANGED <<storage, notifications>> ]_vars

\* C21: no offer holds two available windows with the same (start, end).
C21_NoDuplicateAvailableWindows ==
    \A id \in DOMAIN storage :
        \A i, j \in 1 .. Len(storage[id].available_windows) :
            ( /\ storage[id].available_windows[i].start = storage[id].available_windows[j].start
              /\ storage[id].available_windows[i].end = storage[id].available_windows[j].end )
            => i = j

\* C22: no create_offer, accept_cover (returning or raising) or cancel step
\* removes a stored offer or changes its id, requester, schedule_id,
\* let_window or search_windows.
C22_CreationFieldsFixed ==
    [][ \A id \in DOMAIN storage :
            /\ id \in DOMAIN storage'
            /\ storage'[id].id = id
            /\ storage'[id].id = storage[id].id
            /\ storage'[id].requester = storage[id].requester
            /\ storage'[id].schedule_id = storage[id].schedule_id
            /\ storage'[id].let_window = storage[id].let_window
            /\ storage'[id].search_windows = storage[id].search_windows ]_vars

\* C22 witness: an offer that took two ring contributions and was then
\* cancelled.
C22_Witness ==
    /\ last.op = "cancel"
    /\ \E id \in DOMAIN storage :
          /\ storage[id].status = CANCELLED
          /\ Len(storage[id].partial_commitments) = 2
          /\ storage[id].search_windows # <<>>

\* C23: a create_offer or accept_cover step (returning or raising) that
\* concerns one offer leaves every other stored offer in the repository with
\* its status, outstanding needs, partial commitments, direct agreements and
\* ring swaps as they were.
C23_OffersIndependent ==
    [][ \A id \in DOMAIN storage :
            id # last'.offer_id =>
                /\ id \in DOMAIN storage'
                /\ storage'[id].status = storage[id].status
                /\ storage'[id].outstanding_needs = storage[id].outstanding_needs
                /\ storage'[id].partial_commitments = storage[id].partial_commitments
                /\ storage'[id].direct_agreements = storage[id].direct_agreements
                /\ storage'[id].ring_swaps = storage[id].ring_swaps ]_vars

\* C23 witness: two offers are stored; the one holds a ring contribution and
\* is Active while an accept_cover has just fulfilled the other.
C23_Witness ==
    /\ last.op = "accept_cover"
    /\ last.result = Returned
    /\ \E id, other \in DOMAIN storage :
          /\ id # other
          /\ last.offer_id = id
          /\ storage[id].status = FULFILLED
          /\ storage[other].status = ACTIVE
          /\ Len(storage[other].partial_commitments) = 1

\* C24: get_upcoming_windows returns, in the reader's order, exactly the
\* windows of the reported assignments whose participant's email equals the
\* given one ignoring case and whose window starts at or after now and ends
\* at or before now + horizon_days; it changes no stored offer and applies no
\* override.
C24_UpcomingWindowsWithinHorizon ==
    [][ last'.op = "get_upcoming_windows" =>
            /\ UNCHANGED <<storage, applied>>
            /\ \A call \in last'.args :
                  \E expected \in
                      {SelectSeq(call.reported,
                          LAMBDA a : /\ lower(a.participant.email) = lower(call.participant_email)
                                     /\ a.window.start >= call.now
                                     /\ a.window.end <= call.now + call.horizon_days * SlotsPerDay)} :
                      last'.returned = [i \in 1 .. Len(expected) |-> expected[i].window] ]_vars

\* At least three commitments, made by pairwise different participants.
ProperRing(commitments) ==
    /\ Len(commitments) >= 3
    /\ \A i, j \in 1 .. Len(commitments) :
          i # j => commitments[i].from_participant # commitments[j].from_participant

\* C25: a RingSwap is constructed from a commitments list exactly when the
\* list holds at least three commitments made by pairwise different
\* participants; a record_ring_swap call whose RingSwap is not constructed
\* changes nothing; every RingSwap in an offer's ring_swaps is such a ring.
C25_RingSwapValid ==
    /\ [](\A id \in DOMAIN storage :
            /\ \A commitments \in RingLists(storage[id].let_window) :
                  (validate_ring_chain(commitments) = Returned) <=> ProperRing(commitments)
            /\ \A i \in 1 .. Len(storage[id].ring_swaps) :
                  ProperRing(storage[id].ring_swaps[i].commitments))
    /\ [][ (last'.op = "record_ring_swap" /\ last'.result # Returned)
              => UNCHANGED storage ]_vars

\* C25 witness: record_ring_swap has stored a ring of four commitments and
\* the offer is fulfilled.
C25_Witness ==
    /\ last.op = "record_ring_swap"
    /\ last.result = Returned
    /\ \E id \in DOMAIN storage :
          /\ storage[id].status = FULFILLED
          /\ Len(storage[id].ring_swaps) = 1
          /\ Len(storage[id].ring_swaps[1].commitments) = 4

\* The windows an offer holds.
WindowsOf(offer) ==
    {offer.let_window}
    \cup Range(offer.search_windows) \cup Range(offer.available_windows)
    \cup { offer.outstanding_needs[i].window : i \in DOMAIN offer.outstanding_needs }
    \cup { offer.partial_commitments[i].window : i \in DOMAIN offer.partial_commitments }
    \cup { offer.direct_agreements[i].covers_window : i \in DOMAIN offer.direct_agreements }
    \cup { offer.direct_agreements[i].in_exchange_for : i \in DOMAIN offer.direct_agreements }

\* The windows of the state: those of the stored offers, those of the
\* overrides applied, and the window the last construction returned.
WindowsOfState ==
    UNION { WindowsOf(storage[id]) : id \in DOMAIN storage }
    \cup { applied[i].window : i \in DOMAIN applied }
    \cup (IF last.op \in {"TimeWindow", "intersection"} THEN Range(last.returned) ELSE {})

\* C26: constructing a TimeWindow from (start, end) returns the window with
\* that start and end when end > start and raises the ValueError of
\* validate_non_empty when end <= start; no window of the state (held by an
\* offer the engine built from a command's DTOs, applied as an override, or
\* returned by a construction or by intersection) has end <= start; a
\* create_offer or accept_cover whose DTO is refused changes nothing.
C26_NoEmptyTimeWindow ==
    /\ [](/\ \A start, end \in Instants :
                /\ end > start =>
                      TimeWindow(start, end) =
                          Constructed(Returned, <<[start |-> start, end |-> end]>>)
                /\ end <= start =>
                      TimeWindow(start, end) = Constructed(InvalidWindow, <<>>)
          /\ \A w \in WindowsOfState : w.end > w.start)
    /\ [][ last'.result = InvalidWindow
              => UNCHANGED <<storage, applied, notifications>> ]_vars

\* C26 witness: an offer built from DTOs holds a let window longer than one
\* slot, and the last construction was refused.
C26_Witness ==
    /\ last.op = "TimeWindow"
    /\ last.result = InvalidWindow
    /\ \E id \in DOMAIN storage :
          storage[id].let_window.end > storage[id].let_window.start + 1

\* C27: overlaps is symmetric; a window that ends where the other starts
\* does not overlap it; intersection returns None exactly when the two do
\* not overlap, and otherwise returns the window from the later start to the
\* earlier end, which is not empty; intersection(a, b) = intersection(b, a).
C27_OverlapsAndIntersection ==
    \A a, b \in TimeWindows :
        /\ overlaps(a, b) = overlaps(b, a)
        /\ a.end = b.start => ~overlaps(a, b)
        /\ (intersection(a, b) = Constructed(Returned, <<>>)) <=> ~overlaps(a, b)
        /\ overlaps(a, b) =>
              /\ intersection(a, b) =
                    Constructed(Returned, <<[start |-> max(a.start, b.start),
                                             end |-> min(a.end, b.end)]>>)
              /\ min(a.end, b.end) > max(a.start, b.start)
        /\ intersection(a, b) = intersection(b, a)
        /\ last.op = "overlaps" /\ last.args = {[a |-> a, b |-> b]}
              => last.returned = <<overlaps(b, a)>>
        /\ last.op = "intersection" /\ last.args = {[a |-> a, b |-> b]}
              => last.returned = intersection(b, a).returned

\* C27 witness: the last call intersected two different overlapping windows
\* and returned a window shorter than both.
C27_Witness ==
    /\ last.op = "intersection"
    /\ \E c \in last.args :
          /\ overlaps(c.a, c.b)
          /\ c.a.start < c.b.start /\ c.a.end < c.b.end
          /\ last.returned = <<[start |-> c.b.start, end |-> c.a.end]>>

\* C28 as claimed: the history of a fulfilled offer records exactly one
\* completed swap, a DirectSwap or a RingSwap.
C28_FulfilledRecordsOneSwap ==
    \A id \in DOMAIN storage :
        storage[id].status = FULFILLED
            => Len(storage[id].direct_agreements) + Len(storage[id].ring_swaps) = 1

\* The call is a direct swap that covers a ring need of the offer: it takes
\* the branch of lines 204-271.
CoversDerivedNeed(offer, participant, covers_window, needs_windows) ==
    /\ is_active(offer)
    /\ needs_windows # <<>>
    /\ is_direct(offer, needs_windows[1])
    /\ ~covers_let_window(offer, covers_window)
    /\ find_need(offer, covers_window) # <<>>

\* No participant appears twice in the assignments; the first is the
\* responder's; each other one is either the requester's or that of a
\* participant, not the responder, who holds a commitment for the let window.
DistinctChain(offer, participant, assignments) ==
    /\ assignments # <<>>
    /\ assignments[1].participant = participant
    /\ \A i, j \in DOMAIN assignments :
          i # j => assignments[i].participant # assignments[j].participant
    /\ \A i \in DOMAIN assignments \ {1} :
          \/ assignments[i].participant = offer.requester
          \/ /\ assignments[i].window = offer.let_window
             /\ \E k \in DOMAIN offer.partial_commitments :
                   /\ offer.partial_commitments[k].from_participant = assignments[i].participant
                   /\ date_overlap(offer.partial_commitments[k].window, offer.let_window)

\* C29: the assignment list of a direct swap that covers a derived need
\* holds no participant twice: the responder comes first, a let-window
\* committer is added only when it is not the responder, the requester only
\* when it is neither of them. This holds of the list built for every such
\* call on every stored offer, and of the overrides every such call applies.
C29_ClosureAssignmentsDistinct ==
    /\ [](\A id \in DOMAIN storage :
            is_active(storage[id]) =>
               \A participant \in Participants, covers_window \in Windows,
                  needs_window \in Windows :
                  CoversDerivedNeed(storage[id], participant, covers_window, <<needs_window>>)
                     => DistinctChain(storage[id], participant,
                            closure_assignments(storage[id], participant,
                                                covers_window, needs_window)))
    /\ [][ \A call \in last'.args :
             (/\ last'.op = "accept_cover"
              /\ CoversDerivedNeed(storage[call.offer_id], call.participant,
                                   call.covers_window, call.needs_windows))
             => /\ Len(applied') > Len(applied)
                /\ DistinctChain(storage[call.offer_id], call.participant,
                                 SubSeq(applied', Len(applied) + 1, Len(applied'))) ]_vars

\* C29 witness: a responder who holds a commitment for the let window has
\* closed the ring of an offer made by someone else; two overrides were
\* applied, the responder's and the requester's.
C29_Witness ==
    /\ last.op = "accept_cover"
    /\ last.result = Returned
    /\ last.returned = <<>>
    /\ Len(applied) = 2
    /\ \E call \in last.args :
          /\ storage[call.offer_id].status = FULFILLED
          /\ call.participant # storage[call.offer_id].requester
          /\ applied[1].participant = call.participant
          /\ applied[2].participant = storage[call.offer_id].requester
          /\ \E k \in DOMAIN storage[call.offer_id].partial_commitments :
                /\ storage[call.offer_id].partial_commitments[k].from_participant
                      = call.participant
                /\ storage[call.offer_id].partial_commitments[k].window
                      = storage[call.offer_id].let_window

\* The call is a direct swap of the let window of an offer for whose let
\* window a commitment is held: it pre-empts the ring.
PreemptsRing(offer, covers_window, needs_windows) ==
    /\ is_active(offer)
    /\ needs_windows # <<>>
    /\ is_direct(offer, needs_windows[1])
    /\ covers_let_window(offer, covers_window)
    /\ HasLetCommitment(offer)

\* C30: an accept_cover that returns adds exactly one notification, for its
\* offer: notify_ring_update exactly when the offer stays active,
\* notify_direct_swap exactly when it becomes fulfilled. The direct-swap
\* notification carries assignments exactly when the call covered a derived
\* need, and then they are the assignments of the overrides applied; the
\* notification of a pre-empting direct swap carries none. An accept_cover
\* that raises adds no notification. notify_ring_completion is never sent.
C30_OneNotificationPerAcceptance ==
    /\ [][ last'.op = "accept_cover" =>
             IF last'.result = Returned
             THEN \A call \in last'.args :
                    LET offer == storage[call.offer_id]
                        after == storage'[call.offer_id]
                        m == notifications'[Len(notifications')]
                    IN  /\ Len(notifications') = Len(notifications) + 1
                        /\ SubSeq(notifications', 1, Len(notifications)) = notifications
                        /\ m.offer_id = call.offer_id
                        /\ m.kind \in {"notify_ring_update", "notify_direct_swap"}
                        /\ (m.kind = "notify_ring_update") <=> is_active(after)
                        /\ (m.kind = "notify_direct_swap") <=> (after.status = FULFILLED)
                        /\ m.kind = "notify_direct_swap" =>
                              /\ (m.all_assignments # <<>>) <=>
                                    CoversDerivedNeed(offer, call.participant,
                                        call.covers_window, call.needs_windows)
                              /\ m.all_assignments # <<>> =>
                                    apply_overrides(offer.schedule_id, m.all_assignments)
                                       = SubSeq(applied', Len(applied) + 1, Len(applied'))
                        /\ PreemptsRing(offer, call.covers_window, call.needs_windows) =>
                              /\ m.kind = "notify_direct_swap"
                              /\ m.all_assignments = <<>>
             ELSE notifications' = notifications ]_vars
    /\ [](\A i \in DOMAIN notifications : notifications[i].kind # "notify_ring_completion")

\* C30 witness: after the announcement and one ring update, a direct swap of
\* the let window pre-empted the ring; its notification carries no
\* assignments.
C30_Witness ==
    /\ last.op = "accept_cover"
    /\ last.result = Returned
    /\ last.returned # <<>>
    /\ Len(notifications) = 3
    /\ notifications[2].kind = "notify_ring_update"
    /\ notifications[3].kind = "notify_direct_swap"
    /\ notifications[3].all_assignments = <<>>
    /\ \E call \in last.args : call.participant # storage[call.offer_id].requester

\* No element appears twice in the sequence.
NoRepeats(seq) == \A i, j \in DOMAIN seq : i # j => seq[i] # seq[j]

\* C31: on every offer, whatever its needs and commitments (cycles and
\* several commitments for one window included), the chain walk ends; no
\* commitment is expanded twice, no participant is added to the clean-up set
\* twice (nor added when the walk starts with it), and the offer the walk
\* leaves is the one preempt_ring computes.
C31_ChainWalkTerminates ==
    /\ <>(calls[1].pc = "done")
    /\ [](/\ NoRepeats(calls[1].expanded)
          /\ NoRepeats(calls[1].added)
          /\ calls[1].pc = "walk" =>
                /\ \A i \in DOMAIN calls[1].added :
                      calls[1].added[i] #
                         storage[1].partial_commitments[
                             calls[1].expanded[1]].from_participant
                /\ Len(calls[1].expanded) <= Len(storage[1].partial_commitments))
    /\ [][ calls'[1].pc = "done" => storage'[1] = preempt_ring(storage[1]) ]_vars

\* C31 witness: the loop has emptied its list on an offer whose needs and
\* commitments form a cycle (two participants, each with a need that the
\* other's commitment covers by date); both commitments were expanded and
\* the second participant was added once.
C31_Witness ==
    /\ calls[1].pc = "walk"
    /\ calls[1].commitments_to_check = <<>>
    /\ Len(calls[1].expanded) = 2
    /\ Len(calls[1].added) = 1
    /\ \E n1, n2 \in Range(storage[1].outstanding_needs),
          c1, c2 \in Range(storage[1].partial_commitments) :
          /\ c1.from_participant # c2.from_participant
          /\ ~n1.created_by_offer /\ ~n2.created_by_offer
          /\ n1.owner = c1.from_participant /\ date_overlap(c2.window, n1.window)
          /\ n2.owner = c2.from_participant /\ date_overlap(c1.window, n2.window)

\* C32: an accept_cover that is a direct swap of the let window (its first
\* needs-window starts on a search window's date, its covers-window overlaps
\* the let window by date) returns the DirectSwap of the responder covering
\* the offer's exact let window in exchange for the submitted needs-window,
\* stores it as the offer's only direct agreement, and applies two overrides:
\* the responder on the exact let window, the requester on the needs-window.
C32_DirectSwapUsesExactLetWindow ==
    [][ \A call \in last'.args :
          LET offer == storage[call.offer_id]
              after == storage'[call.offer_id]
          IN  (/\ last'.op = "accept_cover"
               /\ is_active(offer)
               /\ call.needs_windows # <<>>
               /\ is_direct(offer, call.needs_windows[1])
               /\ covers_let_window(offer, call.covers_window))
              => /\ last'.returned =
                       <<DirectSwap(call.participant, offer.let_window,
                                    call.needs_windows[1])>>
                 /\ after.direct_agreements = last'.returned
                 /\ applied' = applied \o
                       <<Override(call.participant, offer.let_window),
                         Override(offer.requester, call.needs_windows[1])>> ]_vars

\* C32 witness: a direct swap was returned for a covers-window that is not
\* the let window (it only shares a date with it), submitted by someone
\* other than the requester for a window that is not the let window.
C32_Witness ==
    /\ last.op = "accept_cover"
    /\ last.result = Returned
    /\ last.returned # <<>>
    /\ Len(applied) = 2
    /\ \E call \in last.args :
          /\ call.covers_window # storage[call.offer_id].let_window
          /\ call.covers_window # last.returned[1].covers_window
          /\ call.participant # storage[call.offer_id].requester
          /\ call.needs_windows[1] # storage[call.offer_id].let_window
          /\ applied[1].window = storage[call.offer_id].let_window

\* C33: resolve_need(window) leaves, in order, exactly the needs whose window
\* differs from window in start or end (so needs that overlap it or share
\* its date stay), returns the first need with that window, or None and an
\* unchanged list when there is none, changes nothing else of the offer, and
\* afterwards find_need(window) finds nothing. add_commitment(coverer, need)
\* appends the commitment of coverer to need.owner for need.window and
\* changes nothing else.
C33_ResolveNeedAndAddCommitment ==
    [][ \A call \in last'.args :
          LET offer == storage[last'.offer_id]
              after == storage'[last'.offer_id]
          IN  /\ last'.op = "resolve_need" =>
                   LET equal == SelectSeq(offer.outstanding_needs,
                                   LAMBDA n : n.window.start = call.window.start
                                              /\ n.window.end = call.window.end)
                   IN  /\ after = [offer EXCEPT !.outstanding_needs =
                              SelectSeq(@, LAMBDA n : n.window.start # call.window.start
                                                      \/ n.window.end # call.window.end)]
                       /\ last'.returned = (IF equal = <<>> THEN <<>> ELSE <<Head(equal)>>)
                       /\ equal = <<>> => after = offer
                       /\ \A i \in DOMAIN offer.outstanding_needs :
                             offer.outstanding_needs[i].window # call.window
                                => offer.outstanding_needs[i] \in Range(after.outstanding_needs)
                       /\ after.partial_commitments = offer.partial_commitments
                       /\ after.status = offer.status
                       /\ find_need(after, call.window) = <<>>
              /\ last'.op = "add_commitment" =>
                   /\ after = [offer EXCEPT !.partial_commitments =
                         Append(@, [from_participant |-> call.coverer,
                                    to_participant |-> call.need.owner,
                                    window |-> call.need.window])]
                   /\ after.outstanding_needs = offer.outstanding_needs ]_vars

\* C33 witness: resolve_need returned a need, and needs that overlap its
\* window, and one that shares only its date, are still outstanding; a
\* commitment has been added before.
C33_Witness ==
    /\ last.op = "resolve_need"
    /\ last.returned # <<>>
    /\ storage[1].partial_commitments # <<>>
    /\ \E n \in Range(storage[1].outstanding_needs) :
          /\ n.window # last.returned[1].window
          /\ overlaps(n.window, last.returned[1].window)
    /\ \E n \in Range(storage[1].outstanding_needs) :
          /\ ~overlaps(n.window, last.returned[1].window)
          /\ date(n.window.start) = date(last.returned[1].window.start)

\* The point in time a datetime denotes, a naive one being read as UTC.
PointInTime(dt) ==
    IF dt.tzinfo = NaiveTz THEN dt.wall ELSE dt.wall - utcoffset(dt.tzinfo)

\* C34: the value of Instant(at) is in UTC and denotes the point in time of
\* at, a naive at keeping its reading; constructing an Instant from an
\* Instant's value gives the same value. This holds of the function on every
\* input, of every Instant constructed, and of what to_datetime returns.
C34_InstantNormalizesToUTC ==
    /\ \A at \in InstantInputs :
          /\ Instant(at).tzinfo = UTC
          /\ PointInTime(Instant(at)) = PointInTime(at)
          /\ at.tzinfo = NaiveTz => Instant(at).wall = at.wall
          /\ Instant(Instant(at)) = Instant(at)
    /\ last.op = "Instant" =>
          \A call \in last.args :
             /\ last.returned[1].tzinfo = UTC
             /\ PointInTime(last.returned[1]) = PointInTime(call.at)
             /\ call.at.tzinfo = NaiveTz => last.returned[1].wall = call.at.wall
             /\ call.at.tzinfo = UTC => last.returned[1] = call.at
    /\ last.op = "to_datetime" =>
          \A call \in last.args :
             /\ last.returned = <<call.value>>
             /\ call.value.tzinfo = UTC

\* C34 witness: an Instant was constructed from an aware datetime of a zone
\* east of UTC, read in the first hour of the day; its value reads the hour
\* before, in UTC.
C34_Witness ==
    /\ last.op = "Instant"
    /\ \E call \in last.args :
          /\ call.at.tzinfo # NaiveTz
          /\ utcoffset(call.at.tzinfo) > 0
          /\ call.at.wall = 0
          /\ last.returned[1] = Datetime(0 - utcoffset(call.at.tzinfo), UTC)

\* C35 as claimed: whenever an accept_cover fulfils an offer, the overrides
\* it applies include one that gives the offer's let window to a participant
\* other than the requester.
C35_LetWindowGivenAway ==
    [][ \A call \in last'.args :
          (/\ last'.op = "accept_cover"
           /\ is_active(storage[call.offer_id])
           /\ storage'[call.offer_id].status = FULFILLED)
          => \E i \in (Len(applied) + 1) .. Len(applied') :
                /\ applied'[i].window = storage[call.offer_id].let_window
                /\ applied'[i].participant # storage[call.offer_id].requester ]_vars

\* C36 as claimed: for an offer whose let window is none of its search
\* windows, the overrides applied by the accept_cover that fulfils it never
\* give the same window (same start and end) to two different participants.
C36_NoDoubleBooking ==
    [][ \A call \in last'.args :
          (/\ last'.op = "accept_cover"
           /\ is_active(storage[call.offer_id])
           /\ storage'[call.offer_id].status = FULFILLED
           /\ storage[call.offer_id].let_window
                 \notin Range(storage[call.offer_id].search_windows))
          => \A i, j \in (Len(applied) + 1) .. Len(applied') :
                applied'[i].window = applied'[j].window
                   => applied'[i].participant = applied'[j].participant ]_vars

\* C37 as claimed: in every active offer, every participant who made a
\* partial commitment owns an outstanding need or is the participant covered
\* by a partial commitment that another participant made.
C37_NoReturnRequestDropped ==
    \A id \in DOMAIN storage :
        is_active(storage[id]) =>
            \A c \in Range(storage[id].partial_commitments) :
                \/ \E n \in Range(storage[id].outstanding_needs) :
                      n.owner = c.from_participant
                \/ \E d \in Range(storage[id].partial_commitments) :
                      /\ d.to_participant = c.from_participant
                      /\ d.from_participant # c.from_participant

\* C38: with an override port that does not fail, no override has been
\* applied while every stored offer is active; overrides are applied only by
\* an accept_cover that returns and takes its offer from active to
\* fulfilled; an offer that is not active never becomes active again, so at
\* most one call per offer applies overrides.
C38_OverridesOnlyWhenFulfilling ==
    /\ []((\A id \in DOMAIN storage : is_active(storage[id])) => applied = <<>>)
    /\ [][ applied' # applied =>
             /\ last'.op = "accept_cover"
             /\ last'.result = Returned
             /\ is_active(storage[last'.offer_id])
             /\ storage'[last'.offer_id].status = FULFILLED
             /\ Len(applied') > Len(applied)
             /\ SubSeq(applied', 1, Len(applied)) = applied ]_vars
    /\ [][ \A id \in DOMAIN storage :
             ~is_active(storage[id]) => ~is_active(storage'[id]) ]_vars

\* C38 witness: after two ring contributions, which applied nothing, a third
\* acceptance closed the ring and applied three overrides.
C38_Witness ==
    /\ last.op = "accept_cover"
    /\ last.result = Returned
    /\ Len(Notified("notify_ring_update")) = 2
    /\ Len(Notified("notify_direct_swap")) = 1
    /\ Len(applied) = 3
    /\ \E id \in DOMAIN storage : storage[id].status = FULFILLED

\* C39: every active offer has an outstanding need, and some acceptance
\* covering the window of one of its needs returns.
C39_ActiveOfferHasNeed ==
    \A id \in DOMAIN storage :
        is_active(storage[id]) =>
            /\ storage[id].outstanding_needs # <<>>
            /\ \E n \in Range(storage[id].outstanding_needs),
                  participant \in Participants, needs_window \in Windows :
                  accept_cover(storage[id], participant, n.window,
                               <<needs_window>>).result = Returned

\* C39 witness: an active offer after two contributions, the second of which
\* left the needs as they were: two commitments, one outstanding need.
C39_Witness ==
    /\ last.op = "accept_cover"
    /\ last.result = Returned
    /\ \E id \in DOMAIN storage :
          /\ is_active(storage[id])
          /\ Len(storage[id].partial_commitments) = 2
          /\ Len(storage[id].outstanding_needs) = 1
          /\ storage[id].outstanding_needs[1].owner # storage[id].requester

\* C40: in every active offer, a need created by the offer is outstanding
\* exactly when there is no partial commitment, and it is then the
\* requester's need for the let window; a derived need is outstanding only
\* when some partial commitment is for the let window.
C40_LetNeedUntilFirstCommitment ==
    \A id \in DOMAIN storage :
        is_active(storage[id]) =>
            /\ (\E n \in Range(storage[id].outstanding_needs) : n.created_by_offer)
                  <=> (storage[id].partial_commitments = <<>>)
            /\ \A n \in Range(storage[id].outstanding_needs) :
                  IF n.created_by_offer
                  THEN n = WindowNeed(storage[id].requester, storage[id].let_window, TRUE)
                  ELSE \E c \in Range(storage[id].partial_commitments) :
                          c.window = storage[id].let_window

\* C40 witness: an active offer with a commitment by someone other than the
\* requester, whose only outstanding need is a derived need for the very
\* interval of the let window.
C40_Witness ==
    /\ last.op = "accept_cover"
    /\ last.result = Returned
    /\ \E id \in DOMAIN storage :
          /\ is_active(storage[id])
          /\ storage[id].let_window \notin Range(storage[id].search_windows)
          /\ Len(storage[id].partial_commitments) = 1
          /\ storage[id].partial_commitments[1].from_participant # storage[id].requester
          /\ storage[id].outstanding_needs =
                <<WindowNeed(storage[id].partial_commitments[1].from_participant,
                             storage[id].let_window, FALSE)>>

=============================================================================
